---- MODULE Spec2Model ----
(***************************************************************************)
(* Model of the declarative query and response-projection engine of        *)
(* src/database/services/filter/filters.py: the Filter DSL, QueryBuilder,  *)
(* BaseServiceWithFilters (get_with_filters, get_with_filters_clean,       *)
(* count_with_filters) and FieldFilter (non-clean projection).             *)
(*                                                                         *)
(* Python values are tagged records, so that None, scalars, objects and    *)
(* lists can sit side by side in one dict:                                 *)
(*   [t |-> "none"]            None                                        *)
(*   [t |-> "sc",   v |-> n]   a scalar column value (an integer code)     *)
(*   [t |-> "obj",  v |-> d]   a dict / object, d a function on its keys   *)
(*   [t |-> "list", v |-> s]   a list, s a sequence of values              *)
(* An attribute path "author.email" is kept in its split('.') form         *)
(* <<"author", "email">>; "'.' in path" is Len(path) > 1.                  *)
(***************************************************************************)
EXTENDS Integers, Sequences, FiniteSets, TLC

VARIABLES
    model_class,   \* the entity the service was constructed for
    filters,       \* the Filter of the request
    pc,            \* "ready", or the name of the service call that ran
    builder,       \* the QueryBuilder after the call built its plan
    results,       \* what get_with_filters returned (raw rows)
    cleaned,       \* what get_with_filters_clean returned
    count,         \* what count_with_filters returned
    projected,     \* what the projection of the rows as dicts returned
    raised,        \* "none", or the class of the exception the call raised
    exception,     \* the exception the call raised: class, message, error_type
    text           \* the title of the row of a one-row posts table, as characters

vars == <<model_class, filters, pc, builder, results, cleaned, count, projected, raised,
          exception, text>>

----------------------------------------------------------------------------
(* Values *)

NoneV == [t |-> "none"]
Sc(n) == [t |-> "sc", v |-> n]
Obj(d) == [t |-> "obj", v |-> d]
Lst(s) == [t |-> "list", v |-> s]

IsNone(x) == x.t = "none"

EmptyDict == [k \in {} |-> NoneV]

\* d with key k set to x (dict assignment d[k] = x)
DictSet(d, k, x) == [j \in (DOMAIN d) \cup {k} |-> IF j = k THEN x ELSE d[j]]

\* d without key k (del d[k])
DictDel(d, k) == [j \in (DOMAIN d) \ {k} |-> d[j]]

\* Python truthiness of a value: None, 0, {} and [] are falsy
Truthy(x) ==
    CASE x.t = "none" -> FALSE
      [] x.t = "sc"   -> x.v # 0
      [] x.t = "obj"  -> DOMAIN x.v # {}
      [] x.t = "list" -> Len(x.v) > 0
      [] OTHER        -> TRUE

SeqToSet(s) == {s[i] : i \in 1..Len(s)}

----------------------------------------------------------------------------
(* Entity metadata: the test models Post, Author, Profile *)

Entities == {"Post", "Author", "Profile"}

Columns(e) ==
    CASE e = "Post"    -> {"id", "title", "tags", "author_id"}
      [] e = "Author"  -> {"id", "email"}
      [] e = "Profile" -> {"id", "bio", "author_id"}

RelationNames(e) ==
    CASE e = "Post"    -> {"author"}
      [] e = "Author"  -> {"profile", "posts"}
      [] e = "Profile" -> {"author"}

\* relation_attr.property.mapper.class_
RelTarget(e, r) ==
    CASE e = "Post"    /\ r = "author"  -> "Author"
      [] e = "Author"  /\ r = "profile" -> "Profile"
      [] e = "Author"  /\ r = "posts"   -> "Post"
      [] e = "Profile" /\ r = "author"  -> "Author"

\* List["Post"] against a single related object
RelIsList(e, r) == e = "Author" /\ r = "posts"

\* hasattr(model, name)
HasAttr(e, name) == name \in Columns(e) \cup RelationNames(e)

----------------------------------------------------------------------------
(* The database the session executes against: NumPosts posts written by    *)
(* two of three authors; author 30 has neither posts nor profile, every   *)
(* third post has no tags and the profile of author 20 has no bio.         *)

NumPosts == 4

PostRow(i) ==
    [id        |-> Sc(i),
     title     |-> Sc(2 - (i % 2)),
     tags      |-> IF i % 3 = 0 THEN NoneV ELSE Sc(7),
     author_id |-> Sc(10 * (2 - (i % 2)))]

AuthorRows ==
    << [id |-> Sc(10), email |-> Sc(5)],
       [id |-> Sc(20), email |-> Sc(4)],
       [id |-> Sc(30), email |-> Sc(6)] >>

ProfileRows ==
    << [id |-> Sc(100), bio |-> Sc(9), author_id |-> Sc(10)],
       [id |-> Sc(200), bio |-> NoneV, author_id |-> Sc(20)] >>

Table(e) ==
    CASE e = "Post"    -> [i \in 1..NumPosts |-> PostRow(i)]
      [] e = "Author"  -> AuthorRows
      [] e = "Profile" -> ProfileRows

\* the ON clause of the join along relation r of entity e
JoinOn(e, r, row, target) ==
    CASE e = "Post"    /\ r = "author"  -> row.author_id = target.id
      [] e = "Author"  /\ r = "profile" -> target.author_id = row.id
      [] e = "Author"  /\ r = "posts"   -> target.author_id = row.id
      [] e = "Profile" /\ r = "author"  -> row.author_id = target.id

----------------------------------------------------------------------------
(* QueryBuilder: the plan (self.query) and the builder's bookkeeping *)

\* select(model_class)
SelectEntity ==
    [narrow  |-> FALSE,   \* TRUE: select(*columns), rows are positional
     columns |-> <<>>,
     joins   |-> <<>>,    \* .join(relation_attr), as <<entity, relation>>
     where   |-> <<>>,    \* one entry per .where(clause)
     options |-> <<>>,    \* .options(loader): eager-load chains
     order   |-> <<>>,    \* .order_by(asc/desc(column))
     limit   |-> NoneV,
     offset  |-> NoneV]

\* select(*valid_fields)
SelectColumns(cols) == [SelectEntity EXCEPT !.narrow = TRUE, !.columns = cols]

\* QueryBuilder.__init__
QueryBuilder(mc) ==
    [model_class              |-> mc,
     query                    |-> SelectEntity,
     joins_applied            |-> {},
     _model_registry          |-> [k \in {} |-> "None"],
     _field_selection_applied |-> FALSE,
     _selected_fields         |-> NoneV,
     _requires_joins          |-> FALSE,
     error                    |-> FALSE]  \* a QueryBuilderError was raised

RECURSIVE _analyze_condition_group_joins(_)
_analyze_condition_group_joins(condition_group) ==
    \E i \in 1..Len(condition_group.conditions) :
        LET condition == condition_group.conditions[i] IN
        IF condition.kind = "Condition"
        THEN Len(condition.attribute) > 1
        ELSE _analyze_condition_group_joins(condition)

analyze_requirements(b, f) ==
    IF ~Truthy(f.conditions)
    THEN b
    ELSE LET inConditions ==
                 \E i \in 1..Len(f.conditions.v) :
                     LET condition == f.conditions.v[i] IN
                     IF condition.kind = "Condition"
                     THEN Len(condition.attribute) > 1
                     ELSE _analyze_condition_group_joins(condition)
             inOrder == Truthy(f.order_by) /\ Len(f.order_by.v) > 1
         IN  [b EXCEPT !._requires_joins = inConditions \/ inOrder]

apply_field_selection(b, fields) ==
    IF ~Truthy(fields)
    THEN b
    ELSE LET valid_fields ==
                 SelectSeq(fields.v, LAMBDA name : HasAttr(b.model_class, name))
         IN  IF Len(valid_fields) = 0
             THEN b
             ELSE IF ~b._requires_joins
                  THEN [b EXCEPT !.query = SelectColumns(valid_fields),
                                 !._field_selection_applied = TRUE,
                                 !._selected_fields = Lst(valid_fields)]
                  ELSE [b EXCEPT !._selected_fields = Lst(valid_fields)]

\* a cache keyed by the model alone
cache_keyOfModel(model, relation_name) == model

\* cache_key = f"{model.__name__}.{relation_name}"
cache_key(model, relation_name) == model \o "." \o relation_name

\* returns the builder (its cache may have grown) and the related model,
\* "None" when the attribute is no relationship
_get_related_model(b, model, relation_name) ==
    IF cache_key(model, relation_name) \in DOMAIN b._model_registry
    THEN [b |-> b, model |-> b._model_registry[cache_key(model, relation_name)]]
    ELSE IF relation_name \in RelationNames(model)
         THEN [b |-> [b EXCEPT !._model_registry =
                          DictSet(b._model_registry, cache_key(model, relation_name),
                                  RelTarget(model, relation_name))],
               model |-> RelTarget(model, relation_name)]
         ELSE [b |-> b, model |-> "None"]

\* a join that is added without looking at joins_applied
JoinRelationUnguarded(b, join_key) ==
    LET joined ==
            IF b._field_selection_applied
            THEN [b EXCEPT !.query = [SelectEntity EXCEPT !.joins = <<join_key>>],
                           !._field_selection_applied = FALSE]
            ELSE [b EXCEPT !.query.joins = Append(@, join_key)]
    IN  [joined EXCEPT !.joins_applied = @ \cup {join_key}]

\* self.query.join(relation_attr), or select(self.model_class).join(...)
\* when a narrow field selection has to be reverted first
JoinRelation(b, join_key) ==
    IF join_key \in b.joins_applied
    THEN b
    ELSE LET joined ==
                 IF b._field_selection_applied
                 THEN [b EXCEPT !.query = [SelectEntity EXCEPT !.joins = <<join_key>>],
                                !._field_selection_applied = FALSE]
                 ELSE [b EXCEPT !.query.joins = Append(@, join_key)]
         IN  [joined EXCEPT !.joins_applied = @ \cup {join_key}]

NoClause == [t |-> "none"]

\* A comparison against a relationship attribute is not a column
\* expression: building it raises inside _build_filter_clause.
ClauseRaises(entity, name) == name \in RelationNames(entity)

_build_filter_clause(entity, name, operator, value) ==
    [t |-> "cmp", entity |-> entity, column |-> name,
     operator |-> operator, value |-> value]

RECURSIVE WalkRelationCondition(_, _, _, _, _)
WalkRelationCondition(b, current_model, attribute_path, i, condition) ==
    IF i < Len(attribute_path)
    THEN LET relation_name == attribute_path[i] IN
         IF ~HasAttr(current_model, relation_name)
         THEN [b |-> b, clause |-> NoClause]
         ELSE LET r == _get_related_model(b, current_model, relation_name) IN
              IF r.model = "None"
              THEN [b |-> r.b, clause |-> NoClause]
              ELSE WalkRelationCondition(
                       JoinRelation(r.b, <<current_model, relation_name>>),
                       r.model, attribute_path, i + 1, condition)
    ELSE LET final_attribute == attribute_path[Len(attribute_path)] IN
         IF ~HasAttr(current_model, final_attribute)
         THEN [b |-> b, clause |-> NoClause]
         ELSE IF ClauseRaises(current_model, final_attribute)
              THEN [b |-> b, clause |-> NoClause]  \* except Exception: return None
              ELSE [b |-> b,
                    clause |-> _build_filter_clause(current_model, final_attribute,
                                   condition.operator, condition.value)]

_apply_relation_condition(b, attribute_path, condition) ==
    WalkRelationCondition(b, b.model_class, attribute_path, 1, condition)

_apply_single_condition(b, condition) ==
    LET attribute_path == condition.attribute IN
    IF Len(attribute_path) = 1
    THEN IF ~HasAttr(b.model_class, attribute_path[1])
         THEN [b |-> b, clause |-> NoClause]
         ELSE IF ClauseRaises(b.model_class, attribute_path[1])
              THEN [b |-> [b EXCEPT !.error = TRUE], clause |-> NoClause]
              ELSE [b |-> b,
                    clause |-> _build_filter_clause(b.model_class, attribute_path[1],
                                   condition.operator, condition.value)]
    ELSE _apply_relation_condition(b, attribute_path, condition)

\* a combination that is and_(*clauses) whatever the operator
CombineWithAnd(logical_operator, clauses) ==
    [t |-> "and", args |-> clauses]

Combine(logical_operator, clauses) ==
    [t |-> IF logical_operator = "or" THEN "or" ELSE "and", args |-> clauses]

RECURSIVE ApplyConditionList(_, _, _)
RECURSIVE _apply_condition_group(_, _)

\* the loop over a list of Condition | ConditionGroup: the builder after
\* it and the clauses that were not None, in order
ApplyConditionList(b, conditions, i) ==
    IF i > Len(conditions) \/ b.error
    THEN [b |-> b, clauses |-> <<>>]
    ELSE LET condition == conditions[i]
             one == IF condition.kind = "Condition"
                    THEN _apply_single_condition(b, condition)
                    ELSE _apply_condition_group(b, condition)
             rest == ApplyConditionList(one.b, conditions, i + 1)
         IN  [b |-> rest.b,
              clauses |-> (IF one.clause.t = "none" THEN <<>> ELSE <<one.clause>>)
                          \o rest.clauses]

_apply_condition_group(b, condition_group) ==
    IF Len(condition_group.conditions) = 0
    THEN [b |-> b, clause |-> NoClause]
    ELSE LET r == ApplyConditionList(b, condition_group.conditions, 1) IN
         IF Len(r.clauses) = 0 \/ r.b.error
         THEN [b |-> r.b, clause |-> NoClause]
         ELSE [b |-> r.b,
               clause |-> Combine(condition_group.logical_operator, r.clauses)]

apply_conditions(b, conditions, logical_operator) ==
    IF ~Truthy(conditions)
    THEN b
    ELSE LET r == ApplyConditionList(b, conditions.v, 1) IN
         IF Len(r.clauses) = 0 \/ r.b.error
         THEN r.b
         ELSE [r.b EXCEPT !.query.where =
                   Append(@, Combine(logical_operator, r.clauses))]

----------------------------------------------------------------------------
(* Eager-load directives.  A loader is a chain of steps, each             *)
(* [entity, rel, strategy, only]: selectinload(Post.author) is a chain of  *)
(* one step, loader.selectinload(Author.profile) appends a step, and       *)
(* load_only(...) restricts the columns of the chain's last step.          *)

LoaderStep(entity, rel, strategy) ==
    [entity |-> entity, rel |-> rel,
     strategy |-> IF strategy \in {"joined", "subquery"} THEN strategy ELSE "select",
     only |-> NoneV]

\* the entity the chain's last step loads
LoaderTarget(loader) == RelTarget(loader[Len(loader)].entity, loader[Len(loader)].rel)

\* loader.load_only(*valid_fields)
LoadOnly(loader, valid_fields) ==
    [loader EXCEPT ![Len(loader)].only = Lst(valid_fields)]

ValidFields(model, fields) == SelectSeq(fields, LAMBDA name : HasAttr(model, name))

RECURSIVE ApplyNestedLoaders(_, _, _, _, _)
\* the loop over relation_config.nested_relations; every pass ends with
\* "loader = nested_loader", so the next pass chains onto the nested loader
ApplyNestedLoaders(b, loader, relation_name, nested_relations, i) ==
    IF i > Len(nested_relations)
    THEN [b |-> b, loader |-> loader]
    ELSE LET nested_relation == nested_relations[i]
             r == _get_related_model(b, b.model_class, relation_name)
             related_model == r.model
         IN  IF related_model = "None"
                \/ ~HasAttr(related_model, nested_relation.relation_name)
             THEN ApplyNestedLoaders(r.b, loader, relation_name, nested_relations, i + 1)
             ELSE IF nested_relation.relation_name \notin RelationNames(related_model)
                     \/ LoaderTarget(loader) # related_model
                  \* the attribute does not link from the chain's last entity:
                  \* the loader call raises, "except Exception: continue"
                  THEN ApplyNestedLoaders(r.b, loader, relation_name, nested_relations, i + 1)
                  ELSE LET nested_loader ==
                               Append(loader,
                                      LoaderStep(related_model, nested_relation.relation_name,
                                                 nested_relation.load_strategy))
                           n == _get_related_model(r.b, related_model, nested_relation.relation_name)
                           valid_nested_fields ==
                               IF Truthy(nested_relation.fields) /\ n.model # "None"
                               THEN ValidFields(n.model, nested_relation.fields.v)
                               ELSE <<>>
                           restricted ==
                               IF Len(valid_nested_fields) > 0
                               THEN LoadOnly(nested_loader, valid_nested_fields)
                               ELSE nested_loader
                       IN  ApplyNestedLoaders(
                               IF Truthy(nested_relation.fields) THEN n.b ELSE r.b,
                               restricted, relation_name, nested_relations, i + 1)

\* selectinload / joinedload / subqueryload of an attribute that is a
\* column, not a relationship, raises
LoaderRaises(model, relation_name) ==
    /\ HasAttr(model, relation_name)
    /\ relation_name \notin RelationNames(model)

_apply_relation_loading(b, relation_config) ==
    IF ~HasAttr(b.model_class, relation_config.relation_name)
    THEN b
    ELSE IF LoaderRaises(b.model_class, relation_config.relation_name)
         THEN b   \* caught by apply_relations: the relation is skipped
         ELSE LET loader0 == << LoaderStep(b.model_class, relation_config.relation_name,
                                           relation_config.load_strategy) >>
                  r == IF Truthy(relation_config.fields)
                       THEN _get_related_model(b, b.model_class, relation_config.relation_name)
                       ELSE [b |-> b, model |-> "None"]
                  valid_fields ==
                      IF r.model # "None"
                      THEN ValidFields(r.model, relation_config.fields.v)
                      ELSE <<>>
                  loader1 == IF Len(valid_fields) > 0
                             THEN LoadOnly(loader0, valid_fields)
                             ELSE loader0
                  n == IF Truthy(relation_config.nested_relations)
                       THEN ApplyNestedLoaders(r.b, loader1, relation_config.relation_name,
                                               relation_config.nested_relations.v, 1)
                       ELSE [b |-> r.b, loader |-> loader1]
              IN  [n.b EXCEPT !.query.options = Append(@, n.loader)]

RECURSIVE ApplyRelationList(_, _, _)
ApplyRelationList(b, relations, i) ==
    IF i > Len(relations)
    THEN b
    ELSE ApplyRelationList(_apply_relation_loading(b, relations[i]), relations, i + 1)

RECURSIVE ApplyRelationListStopping(_, _, _)
ApplyRelationListStopping(b, relations, i) ==
    IF i > Len(relations) \/ LoaderRaises(b.model_class, relations[i].relation_name)
    THEN b
    ELSE ApplyRelationListStopping(_apply_relation_loading(b, relations[i]),
                                   relations, i + 1)

\* a loop over the relations that ends at the first loader that raises
apply_relationsStoppingAtFailure(b, relations) == ApplyRelationListStopping(b, relations, 1)

apply_relations(b, relations) == ApplyRelationList(b, relations, 1)

----------------------------------------------------------------------------
(* Ordering and pagination *)

OrderClause(entity, name, direction) ==
    [entity |-> entity, column |-> name,
     dir |-> IF direction = "desc" THEN "desc" ELSE "asc"]

RECURSIVE WalkOrdering(_, _, _, _, _)
WalkOrdering(b, current_model, attribute_path, i, direction) ==
    IF i < Len(attribute_path)
    THEN LET relation_name == attribute_path[i] IN
         IF ~HasAttr(current_model, relation_name)
         THEN b
         ELSE LET r == _get_related_model(b, current_model, relation_name) IN
              IF r.model = "None"
              THEN r.b
              ELSE WalkOrdering(JoinRelation(r.b, <<current_model, relation_name>>),
                                r.model, attribute_path, i + 1, direction)
    ELSE LET final_attribute == attribute_path[Len(attribute_path)] IN
         IF ~HasAttr(current_model, final_attribute)
            \/ final_attribute \in RelationNames(current_model)
         THEN b
         ELSE [b EXCEPT !.query.order =
                   Append(@, OrderClause(current_model, final_attribute, direction))]

apply_ordering(b, order_by, direction) ==
    IF ~Truthy(order_by)
    THEN b
    ELSE WalkOrdering(b, b.model_class, order_by.v, 1, direction)

\* a pagination that forgets the offset
apply_paginationLimitOnly(b, limit, offset) ==
    IF ~IsNone(limit) THEN [b EXCEPT !.query.limit = limit] ELSE b

apply_pagination(b, limit, offset) ==
    LET withLimit == IF ~IsNone(limit) THEN [b EXCEPT !.query.limit = limit] ELSE b
    IN  IF ~IsNone(offset) THEN [withLimit EXCEPT !.query.offset = offset] ELSE withLimit

\* QueryBuilder.build
build(b) == b.query

----------------------------------------------------------------------------
(* session.exec(query).all(): the plan evaluated against the tables.      *)
(* A row of the FROM clause is a binding: entity name -> row of its table. *)

RECURSIVE Flatten(_)
Flatten(ss) == IF Len(ss) = 0 THEN <<>> ELSE Head(ss) \o Flatten(Tail(ss))

\* INNER JOIN along <<entity, relation>>
JoinOne(bindings, join) ==
    LET e == join[1]
        target == RelTarget(join[1], join[2])
        extend(b) == LET matches == SelectSeq(Table(target),
                                     LAMBDA row : JoinOn(e, join[2], b[e], row))
                     IN  [k \in 1..Len(matches) |-> DictSet(b, target, matches[k])]
    IN  Flatten([k \in 1..Len(bindings) |-> extend(bindings[k])])

RECURSIVE JoinAll(_, _, _)
JoinAll(bindings, joins, i) ==
    IF i > Len(joins) THEN bindings
    ELSE JoinAll(JoinOne(bindings, joins[i]), joins, i + 1)

\* a join that brings in a table already in the FROM list is rejected by
\* the database (the builder never aliases)
JoinsAmbiguous(root, joins) ==
    \E i \in 1..Len(joins) :
        \/ RelTarget(joins[i][1], joins[i][2]) = root
        \/ \E j \in 1..(i - 1) :
               RelTarget(joins[j][1], joins[j][2]) = RelTarget(joins[i][1], joins[i][2])

\* a text value: a sequence of characters
Txt(chars) == [t |-> "text", v |-> chars]

Digits == <<"0", "1", "2", "3", "4", "5", "6", "7", "8", "9">>

RECURSIVE str(_)
\* str(val) of a non-negative int
str(n) == IF n < 10 THEN <<Digits[n + 1]>> ELSE str(n \div 10) \o <<Digits[(n % 10) + 1]>>

\* the text of a value: str(val) and f'{val}' on the Python side, the
\* column's text on the database side
Text(x) ==
    IF IsNone(x) THEN <<"N", "o", "n", "e">>
    ELSE IF x.t = "text" THEN x.v ELSE str(x.v)

\* lower() on the characters of the model's alphabet
Lower(c) ==
    CASE c = "A" -> "a"
      [] c = "B" -> "b"
      [] OTHER   -> c

LowerText(chars) == [k \in 1..Len(chars) |-> Lower(chars[k])]

RECURSIVE LikeFrom(_, _, _, _)
\* SQL LIKE from position i of the pattern and j of the text: % stands for
\* any run of characters, _ for any one character
LikeFrom(pattern, i, chars, j) ==
    IF i > Len(pattern) THEN j > Len(chars)
    ELSE IF pattern[i] = "%"
         THEN \E k \in j..(Len(chars) + 1) : LikeFrom(pattern, i + 1, chars, k)
         ELSE /\ j <= Len(chars)
              /\ (pattern[i] = "_" \/ pattern[i] = chars[j])
              /\ LikeFrom(pattern, i + 1, chars, j + 1)

\* column LIKE pattern (PostgreSQL: case is respected)
Like(chars, pattern) == LikeFrom(pattern, 1, chars, 1)

\* column ILIKE pattern
ILike(chars, pattern) == LikeFrom(LowerText(pattern), 1, LowerText(chars), 1)

InList(x, value) ==
    IF value.t = "list" THEN \E k \in 1..Len(value.v) : value.v[k].v = x.v
    ELSE value.v = x.v

\* SQL comparison: a NULL operand never satisfies a comparison
Compare(x, operator, value) ==
    CASE operator = "eq"          -> ~IsNone(x) /\ x.v = value.v
      [] operator = "ne"          -> ~IsNone(x) /\ x.v # value.v
      [] operator = "gt"          -> ~IsNone(x) /\ x.v > value.v
      [] operator = "gte"         -> ~IsNone(x) /\ x.v >= value.v
      [] operator = "lt"          -> ~IsNone(x) /\ x.v < value.v
      [] operator = "lte"         -> ~IsNone(x) /\ x.v <= value.v
      [] operator = "in"          -> ~IsNone(x) /\ InList(x, value)
      [] operator = "not_in"      -> ~IsNone(x) /\ ~InList(x, value)
      [] operator = "is_null"     -> IsNone(x)
      [] operator = "is_not_null" -> ~IsNone(x)
      \* col.contains(str(val)): col LIKE '%' || :val || '%'
      [] operator = "contains"    ->
             ~IsNone(x) /\ Like(Text(x), <<"%">> \o Text(value) \o <<"%">>)
      \* col.ilike(f'%{val}%')
      [] operator = "icontains"   ->
             ~IsNone(x) /\ ILike(Text(x), <<"%">> \o Text(value) \o <<"%">>)
      \* col.startswith(str(val)): col LIKE :val || '%'
      [] operator = "startswith"  ->
             ~IsNone(x) /\ Like(Text(x), Text(value) \o <<"%">>)
      \* col.endswith(str(val)): col LIKE '%' || :val
      [] operator = "endswith"    ->
             ~IsNone(x) /\ Like(Text(x), <<"%">> \o Text(value))

RECURSIVE EvalClause(_, _)
EvalClause(clause, binding) ==
    CASE clause.t = "cmp" ->
             Compare(binding[clause.entity][clause.column], clause.operator, clause.value)
      [] clause.t = "and" ->
             \A k \in 1..Len(clause.args) : EvalClause(clause.args[k], binding)
      [] clause.t = "or" ->
             \E k \in 1..Len(clause.args) : EvalClause(clause.args[k], binding)

SortKey(binding, oc) ==
    LET x == binding[oc.entity][oc.column] IN
    IF IsNone(x) THEN -1 ELSE x.v

\* b1 comes strictly before b2 under the order clause
Before(b1, b2, oc) ==
    IF oc.dir = "desc" THEN SortKey(b1, oc) > SortKey(b2, oc)
    ELSE SortKey(b1, oc) < SortKey(b2, oc)

RECURSIVE InsertSorted(_, _, _)
\* x goes after every element that is not strictly after it (stable)
InsertSorted(sorted, x, oc) ==
    IF Len(sorted) = 0 THEN <<x>>
    ELSE IF Before(x, sorted[Len(sorted)], oc)
         THEN Append(InsertSorted(SubSeq(sorted, 1, Len(sorted) - 1), x, oc),
                     sorted[Len(sorted)])
         ELSE Append(sorted, x)

RECURSIVE SortBy(_, _)
SortBy(bindings, oc) ==
    IF Len(bindings) = 0 THEN <<>>
    ELSE InsertSorted(SortBy(SubSeq(bindings, 1, Len(bindings) - 1), oc),
                      bindings[Len(bindings)], oc)

RECURSIVE OrderAll(_, _, _)
\* ORDER BY o1, o2, ...: stable sorts from the last key to the first
OrderAll(bindings, order, i) ==
    IF i < 1 THEN bindings
    ELSE OrderAll(SortBy(bindings, order[i]), order, i - 1)

Paginate(rows, limit, offset) ==
    LET skip == IF IsNone(offset) THEN 0 ELSE offset.v
        rest == SubSeq(rows, skip + 1, Len(rows))
    IN  IF IsNone(limit) \/ limit.v >= Len(rest) THEN rest
        ELSE SubSeq(rest, 1, limit.v)

\* the bindings the plan selects, in order, before LIMIT / OFFSET
MatchedRows(q, root) ==
    LET from == JoinAll([k \in 1..Len(Table(root)) |-> [e \in {root} |-> Table(root)[k]]],
                        q.joins, 1)
        kept == SelectSeq(from, LAMBDA b :
                    \A k \in 1..Len(q.where) : EvalClause(q.where[k], b))
    IN  OrderAll(kept, q.order, Len(q.order))

RECURSIVE LoadEntity(_, _, _)
\* the ORM instance of a row: its columns, and every relationship either
\* loaded by an eager-load chain or left at the "noload" default
LoadEntity(cls, row, chains) ==
    LET relValue(rel) ==
            LET here == SelectSeq(chains, LAMBDA c : c[1].entity = cls /\ c[1].rel = rel)
                longer == SelectSeq(here, LAMBDA c : Len(c) > 1)
                tails == [k \in 1..Len(longer) |-> Tail(longer[k])]
                related == SelectSeq(Table(RelTarget(cls, rel)),
                                     LAMBDA t : JoinOn(cls, rel, row, t))
            IN  IF Len(here) = 0
                THEN IF RelIsList(cls, rel) THEN Lst(<<>>) ELSE NoneV
                ELSE IF RelIsList(cls, rel)
                     THEN Lst([k \in 1..Len(related) |->
                                 LoadEntity(RelTarget(cls, rel), related[k], tails)])
                     ELSE IF Len(related) = 0 THEN NoneV
                          ELSE LoadEntity(RelTarget(cls, rel), related[1], tails)
    IN  [t |-> "entity", cls |-> cls,
         v |-> [name \in Columns(cls) \cup RelationNames(cls) |->
                   IF name \in Columns(cls) THEN row[name] ELSE relValue(name)]]

\* a positional Row of select(*columns)
RowOf(columns, row) ==
    [t |-> "row", _fields |-> columns,
     v |-> [k \in 1..Len(columns) |-> row[columns[k]]]]

\* Session.exec of sqlmodel: a select of one column is answered with its
\* scalars, a select of several columns with Rows, select(model) with the
\* instances.  Loader options on a select that has only columns cannot be
\* applied and the statement is refused (ArgumentError).
ExecQuery(q, root) ==
    IF JoinsAmbiguous(root, q.joins) \/ (q.narrow /\ Len(q.options) > 0)
    THEN [error |-> TRUE, rows |-> <<>>]
    ELSE LET page == Paginate(MatchedRows(q, root), q.limit, q.offset) IN
         [error |-> FALSE,
          rows |-> [k \in 1..Len(page) |->
                      IF q.narrow
                      THEN IF Len(q.columns) = 1
                           THEN page[k][root][q.columns[1]]
                           ELSE RowOf(q.columns, page[k][root])
                      ELSE LoadEntity(root, page[k][root], q.options)]]

----------------------------------------------------------------------------
(* BaseServiceWithFilters *)

\* hasattr(result, name) / getattr(result, name) on a result row
ResultHasAttr(result, name) ==
    CASE result.t = "entity"   -> name \in DOMAIN result.v
      [] result.t = "filtered" -> name \in DOMAIN result.v
      [] result.t = "row"      -> name \in SeqToSet(result._fields)
      [] OTHER                 -> FALSE

RECURSIVE FilteredDict(_, _, _, _)
\* filtered_dict[name] = getattr(result, name) for the names the result has
FilteredDict(d, result, names, i) ==
    IF i > Len(names) THEN d
    ELSE FilteredDict(IF ResultHasAttr(result, names[i])
                      THEN DictSet(d, names[i], result.v[names[i]])
                      ELSE d,
                      result, names, i + 1)

\* the deferred field selection, re-applied to one result
FilteredResult(result, selected_fields, relations) ==
    IF result.t # "entity"   \* no __dict__: a Row or a scalar
    THEN result
    ELSE LET scalars == FilteredDict(EmptyDict, result, selected_fields, 1)
             relation_names ==
                 IF Truthy(relations)
                 THEN [k \in 1..Len(relations.v) |-> relations.v[k].relation_name]
                 ELSE <<>>
         IN  [t |-> "filtered", v |-> FilteredDict(scalars, result, relation_names, 1)]

\* "if filters.fields: builder.apply_field_selection(filters.fields)"
SelectFields(b, f) ==
    IF Truthy(f.fields) THEN apply_field_selection(b, f.fields) ELSE b

\* "if filters.conditions: builder.apply_conditions(...)"
ApplyConditions(b, f) ==
    IF Truthy(f.conditions)
    THEN apply_conditions(b, f.conditions, f.logical_operator) ELSE b

\* "if filters.relations: builder.apply_relations(filters.relations)"
ApplyRelations(b, f) ==
    IF Truthy(f.relations) THEN apply_relations(b, f.relations.v) ELSE b

\* "if filters.order_by: builder.apply_ordering(...)"
ApplyOrdering(b, f) ==
    IF Truthy(f.order_by)
    THEN apply_ordering(b, f.order_by, f.order_direction) ELSE b

\* the steps after the conditions; a QueryBuilderError raised by a
\* condition ends the call before them
AfterConditions(b, f) ==
    IF b.error THEN b
    ELSE apply_pagination(ApplyOrdering(ApplyRelations(b, f), f), f.limit, f.offset)

\* the builder after every step of get_with_filters up to build()
BuildPlan(mc, f) ==
    AfterConditions(
        ApplyConditions(SelectFields(analyze_requirements(QueryBuilder(mc), f), f), f), f)

\* the post-processing of the executed rows: a deferred field selection
\* is re-applied, otherwise the rows are returned as they are
PostProcess(b, f, rows) ==
    IF Truthy(f.fields) /\ Truthy(b._selected_fields) /\ b._requires_joins
    THEN [k \in 1..Len(rows) |->
             FilteredResult(rows[k], b._selected_fields.v, f.relations)]
    ELSE rows

\* QueryBuilderErrorType members
UNKNOWN_ERROR == "unknown_error"
DATABASE_ERROR == "database_error"

NoException == [class |-> "none", message |-> "", error_type |-> "none"]

\* QueryBuilderError(message, error_type = UNKNOWN_ERROR)
QueryBuilderError(message, error_type) ==
    [class |-> "QueryBuilderError", message |-> message, error_type |-> error_type]

\* QueryBuilderError.database_error(message)
database_error(message) == QueryBuilderError("Error de base de datos", DATABASE_ERROR)

\* what _apply_single_condition raises from its "except Exception"
ConditionError == QueryBuilderError("Error en condicion", UNKNOWN_ERROR)

\* what session.exec(query) raises for a statement it cannot run
StatementError ==
    [class |-> "SQLAlchemyError", message |-> "statement", error_type |-> "none"]

\* handlers that let every exception pass as it is
ReraisedAsIs(e) == e

\* the handlers of get_with_filters: "except QueryBuilderError: raise",
\* "except Exception as e: raise QueryBuilderError(...)"
Reraised(e) ==
    IF e.class = "QueryBuilderError"
    THEN e
    ELSE QueryBuilderError("Error ejecutando consulta", UNKNOWN_ERROR)

\* the call ends with exception e passed through its handlers
Raises(b, e) ==
    [builder |-> b, results |-> <<>>, raised |-> e.class, exception |-> e]

\* what the call answers once the query was executed with outcome x
Returned(b, f, x) ==
    IF x.error
    THEN Raises(b, Reraised(StatementError))
    ELSE [builder |-> b, results |-> PostProcess(b, f, x.rows), raised |-> "none",
          exception |-> NoException]

\* build(), session.exec(query).all() and the post-processing
Execute(b, mc, f) ==
    IF b.error
    THEN Raises(b, Reraised(ConditionError))
    ELSE Returned(b, f, ExecQuery(build(b), mc))

get_with_filters(mc, f) == Execute(BuildPlan(mc, f), mc, f)

\* session.exec(count_query).scalar(): count_query is a sqlmodel select of
\* one entity, func.count(), which Session.exec answers with a ScalarResult;
\* a ScalarResult has all(), first() and one() but no scalar().
ScalarResultHasScalar == FALSE

\* the count read from the executed count query, 0 from "except Exception"
Counted(b, x) ==
    [builder |-> b,
     count |-> IF x.error \/ ~ScalarResultHasScalar THEN 0 ELSE Len(x.rows),
     raised |-> "none"]

\* a count that lets the QueryBuilderError of a condition reach its caller
ExecuteCountReraising(b, mc) ==
    IF b.error
    THEN [builder |-> b, count |-> -1, raised |-> "QueryBuilderError"]
    ELSE Counted(b, ExecQuery(build(b), mc))

\* "try: ... except Exception: return 0" around the whole body
ExecuteCount(b, mc) ==
    IF b.error
    THEN [builder |-> b, count |-> 0, raised |-> "none"]
    ELSE Counted(b, ExecQuery(build(b), mc))

\* a count that paginates its query
count_with_filtersPaginated(mc, f) ==
    ExecuteCount(apply_pagination(ApplyConditions(QueryBuilder(mc), f), f.limit, f.offset),
                 mc)

count_with_filters(mc, f) == ExecuteCount(ApplyConditions(QueryBuilder(mc), f), mc)

----------------------------------------------------------------------------
(* get_with_filters_clean: conversion of the raw rows and None-pruning *)

\* SQLModel's model_dump() of a table instance: its fields, which do not
\* include the Relationship attributes
model_dump(entity) == [name \in Columns(entity.cls) |-> entity.v[name]]

RECURSIVE RowToDict(_, _, _, _)
RowToDict(d, row, requested_fields, i) ==
    IF i > Len(requested_fields) THEN d
    ELSE RowToDict(IF i <= Len(row.v) /\ ~IsNone(row.v[i])
                   THEN DictSet(d, requested_fields[i], row.v[i])
                   ELSE d,
                   row, requested_fields, i + 1)

_row_to_dict(row, requested_fields) ==
    IF ~Truthy(requested_fields)
    THEN [name \in SeqToSet(row._fields) |->
             row.v[CHOOSE k \in 1..Len(row._fields) :
                       /\ row._fields[k] = name
                       /\ \A j \in (k + 1)..Len(row._fields) : row._fields[j] # name]]
    ELSE RowToDict(EmptyDict, row, requested_fields.v, 1)

\* a cleaning that keeps the keys whose value is None
_clean_dict_none_valuesKeepingNone(user_dict, requested_fields) ==
    LET fields_to_process == IF Truthy(requested_fields)
                             THEN SeqToSet(requested_fields.v)
                             ELSE DOMAIN user_dict
    IN  [field \in {k \in fields_to_process : k \in DOMAIN user_dict} |-> user_dict[field]]

\* the keys kept: the requested fields when given, else every key; a key
\* stays only if the dict has it with a value that is not None
_clean_dict_none_values(user_dict, requested_fields) ==
    LET fields_to_process == IF Truthy(requested_fields)
                             THEN SeqToSet(requested_fields.v)
                             ELSE DOMAIN user_dict
    IN  [field \in {k \in fields_to_process :
                        k \in DOMAIN user_dict /\ ~IsNone(user_dict[k])}
            |-> user_dict[field]]

\* the dict form of a related item, when _clean_single_relation finds one
HasDictForm(item) == item.t \in {"entity", "filtered", "clean", "obj"}
DictForm(item) == IF item.t = "entity" THEN model_dump(item) ELSE item.v

RECURSIVE _clean_single_relation(_, _)
RECURSIVE _clean_nested_relations(_, _, _)
RECURSIVE CleanRelationItems(_, _, _)

\* the cleaned items of a list-valued relation that are truthy
CleanRelationItems(items, config, i) ==
    IF i > Len(items) THEN <<>>
    ELSE LET cleaned_item == _clean_single_relation(items[i], config) IN
         (IF Truthy(cleaned_item) THEN <<cleaned_item>> ELSE <<>>)
         \o CleanRelationItems(items, config, i + 1)

\* one pass of the loop over the relation configs on a dict
CleanRelationKey(d, config) ==
    LET name == config.relation_name IN
    IF name \notin DOMAIN d \/ IsNone(d[name])
    THEN d
    ELSE IF d[name].t = "list"
         THEN DictSet(d, name, Lst(CleanRelationItems(d[name].v, config, 1)))
         ELSE LET cleaned_relation == _clean_single_relation(d[name], config) IN
              IF Truthy(cleaned_relation)
              THEN DictSet(d, name, cleaned_relation)
              ELSE DictDel(d, name)

_clean_nested_relations(relation_dict, nested_relations_config, i) ==
    IF i > Len(nested_relations_config) THEN relation_dict
    ELSE _clean_nested_relations(
             CleanRelationKey(relation_dict, nested_relations_config[i]),
             nested_relations_config, i + 1)

_clean_single_relation(relation_item, relation_config) ==
    IF ~HasDictForm(relation_item)
    THEN relation_item
    ELSE LET relation_dict == DictForm(relation_item)
             cleaned_relation_dict ==
                 _clean_dict_none_values(relation_dict, relation_config.fields)
             withNested ==
                 IF Truthy(relation_config.nested_relations)
                 THEN _clean_nested_relations(cleaned_relation_dict,
                                              relation_config.nested_relations.v, 1)
                 ELSE cleaned_relation_dict
         IN  IF DOMAIN withNested # {} THEN Obj(withNested) ELSE NoneV

_clean_relations_none_values(user_dict, relations_config) ==
    _clean_nested_relations(user_dict, relations_config, 1)

\* CleanModel(cleaned_dict)
_create_clean_result_object(cleaned_dict) == [t |-> "clean", v |-> cleaned_dict]

_process_single_result(result, f) ==
    IF result.t \notin {"row", "entity", "filtered"}
    THEN result   \* a scalar: "Tipo desconocido", returned as it is
    ELSE
    LET user_dict ==
            CASE result.t = "row"      -> _row_to_dict(result, f.fields)
              [] result.t = "entity"   -> model_dump(result)
              [] result.t = "filtered" -> result.v
        cleaned_user_dict == _clean_dict_none_values(user_dict, f.fields)
        withRelations ==
            IF Truthy(f.relations)
            THEN _clean_relations_none_values(cleaned_user_dict, f.relations.v)
            ELSE cleaned_user_dict
    IN  _create_clean_result_object(withRelations)

\* "if cleaned_user: cleaned_results.append(cleaned_user)"
_convert_and_clean_results(rows, f) ==
    SelectSeq([k \in 1..Len(rows) |-> _process_single_result(rows[k], f)], Truthy)

\* the answer of get_with_filters_clean for the answer raw of get_with_filters
Cleaned(raw, f) ==
    IF raw.raised # "none"
    THEN [builder |-> raw.builder, results |-> <<>>, cleaned |-> <<>>,
          raised |-> raw.raised, exception |-> raw.exception]
    ELSE [builder |-> raw.builder, results |-> raw.results,
          cleaned |-> IF Len(raw.results) = 0 THEN <<>>
                      ELSE _convert_and_clean_results(raw.results, f),
          raised |-> "none", exception |-> NoException]

get_with_filters_clean(mc, f) == Cleaned(get_with_filters(mc, f), f)

----------------------------------------------------------------------------
(* FieldFilter: the projection that keeps None and [] (non-clean mode).   *)
(* A requested relation is a dict {relation_name, fields, relations} or,   *)
(* where extract_filter_fields left it unconverted, a RelationConfig       *)
(* object, on which .get(...) raises AttributeError.                       *)

ErrorV == [t |-> "error"]
IsError(x) == x.t = "error"

RelationDict(name, fields, relations) ==
    [kind |-> "dict", relation_name |-> name, fields |-> fields, relations |-> relations]

\* rel.get('relation_name', '') works on every entry
AllDicts(relations) == \A k \in 1..Len(relations) : relations[k].kind = "dict"

RelationNameSet(relations) == {relations[k].relation_name : k \in 1..Len(relations)}

\* the main (non-relational) keys kept from a dict
KeepFields(obj, requested_fields, relation_names) ==
    IF Truthy(requested_fields)
    THEN [field \in {k \in SeqToSet(requested_fields.v) :
                         k \in DOMAIN obj /\ k \notin relation_names} |-> obj[field]]
    ELSE [key \in (DOMAIN obj) \ relation_names |-> obj[key]]

RECURSIVE _filter_relation_recursive(_, _, _)
RECURSIVE _filter_single_relation_object(_, _, _)
RECURSIVE ProjectRelations(_, _, _, _)
RECURSIVE ProjectItems(_, _, _, _)

\* the loop "for relation in requested_relations" of both object filters
ProjectRelations(filtered_obj, obj, relations, i) ==
    IF i > Len(relations) THEN Obj(filtered_obj)
    ELSE LET relation == relations[i]
             relation_name == relation.relation_name
         IN  IF relation_name \in DOMAIN obj /\ ~IsNone(obj[relation_name])
             THEN LET filtered_relation ==
                          _filter_relation_recursive(obj[relation_name], relation.fields,
                                                     relation.relations)
                  IN  IF IsError(filtered_relation) THEN ErrorV
                      ELSE ProjectRelations(
                               DictSet(filtered_obj, relation_name, filtered_relation),
                               obj, relations, i + 1)
             ELSE ProjectRelations(filtered_obj, obj, relations, i + 1)

ProjectItems(items, requested_fields, nested_relations, i) ==
    IF i > Len(items) THEN Lst(<<>>)
    ELSE LET head == _filter_single_relation_object(items[i], requested_fields,
                                                    nested_relations)
             rest == ProjectItems(items, requested_fields, nested_relations, i + 1)
         IN  IF IsError(head) \/ IsError(rest) THEN ErrorV
             ELSE Lst(<<head>> \o rest.v)

\* a relation filter that answers None for every falsy value, [] included
_filter_relation_recursiveNoneForEmpty(relation_data, requested_fields, nested_relations) ==
    IF ~Truthy(relation_data)
    THEN NoneV
    ELSE IF relation_data.t = "list"
         THEN ProjectItems(relation_data.v, requested_fields, nested_relations, 1)
         ELSE IF relation_data.t = "obj"
              THEN _filter_single_relation_object(relation_data, requested_fields,
                                                  nested_relations)
              ELSE relation_data

_filter_relation_recursive(relation_data, requested_fields, nested_relations) ==
    IF ~Truthy(relation_data)
    THEN relation_data
    ELSE IF relation_data.t = "list"
         THEN ProjectItems(relation_data.v, requested_fields, nested_relations, 1)
         ELSE IF relation_data.t = "obj"
              THEN _filter_single_relation_object(relation_data, requested_fields,
                                                  nested_relations)
              ELSE relation_data

_filter_single_relation_object(obj, requested_fields, nested_relations) ==
    IF obj.t # "obj"
    THEN obj
    ELSE IF Truthy(nested_relations) /\ ~AllDicts(nested_relations.v)
         THEN ErrorV
         ELSE LET nested == IF Truthy(nested_relations) THEN nested_relations.v ELSE <<>>
              IN  ProjectRelations(
                      KeepFields(obj.v, requested_fields, RelationNameSet(nested)),
                      obj.v, nested, 1)

_filter_single_object(obj, requested_fields, requested_relations) ==
    IF obj.t # "obj"
    THEN obj
    ELSE IF Truthy(requested_relations) /\ ~AllDicts(requested_relations.v)
         THEN ErrorV
         ELSE LET relations == IF Truthy(requested_relations)
                               THEN requested_relations.v ELSE <<>>
              IN  ProjectRelations(
                      KeepFields(obj.v, requested_fields, RelationNameSet(relations)),
                      obj.v, relations, 1)

RECURSIVE FilterObjects(_, _, _, _)
FilterObjects(data, requested_fields, requested_relations, i) ==
    IF i > Len(data) THEN Lst(<<>>)
    ELSE LET head == _filter_single_object(data[i], requested_fields, requested_relations)
             rest == FilterObjects(data, requested_fields, requested_relations, i + 1)
         IN  IF IsError(head) \/ IsError(rest) THEN ErrorV
             ELSE Lst(<<head>> \o rest.v)

\* a projection whose loop over the records starts one record late
filter_response_fieldsSkippingFirst(data, requested_fields, requested_relations) ==
    IF ~Truthy(data)
    THEN data
    ELSE IF ~Truthy(requested_fields) /\ ~Truthy(requested_relations)
         THEN data
         ELSE FilterObjects(data.v, requested_fields, requested_relations, 2)

\* data is a list of dicts
filter_response_fields(data, requested_fields, requested_relations) ==
    IF ~Truthy(data)
    THEN data
    ELSE IF ~Truthy(requested_fields) /\ ~Truthy(requested_relations)
         THEN data
         ELSE FilterObjects(data.v, requested_fields, requested_relations, 1)

\* the requested relations of a Filter: the top-level RelationConfig
\* objects become dicts, their nested_relations are passed on as they are
extract_filter_fields(f) ==
    [requested_fields |-> f.fields,
     requested_relations |->
         IF ~Truthy(f.relations) THEN NoneV
         ELSE Lst([k \in 1..Len(f.relations.v) |->
                     LET relation == f.relations.v[k] IN
                     RelationDict(relation.relation_name, relation.fields,
                                  IF Truthy(relation.nested_relations)
                                  THEN relation.nested_relations
                                  ELSE Lst(<<>>))])]

filter_response(data, f) ==
    LET x == extract_filter_fields(f) IN
    filter_response_fields(data, x.requested_fields, x.requested_relations)

----------------------------------------------------------------------------
(* The Filter DSL and the requests the model draws *)

Condition(attribute, operator, value) ==
    [kind |-> "Condition", attribute |-> attribute, operator |-> operator, value |-> value]

ConditionGroup(conditions, logical_operator) ==
    [kind |-> "ConditionGroup", conditions |-> conditions,
     logical_operator |-> logical_operator]

RelationConfig(relation_name, fields, nested_relations) ==
    [kind |-> "RelationConfig", relation_name |-> relation_name,
     load_strategy |-> "select", fields |-> fields, nested_relations |-> nested_relations]

Str(path) == [t |-> "str", v |-> path]

MaxLimit == 2
MaxOffset == 1

\* Filter.conditions with Filter.logical_operator
ConditionChoices ==
    { <<NoneV, "and">>,
      <<Lst(<< Condition(<<"title">>, "eq", Sc(1)) >>), "and">>,
      <<Lst(<< Condition(<<"author", "email">>, "eq", Sc(5)) >>), "and">>,
      <<Lst(<< Condition(<<"author", "email">>, "eq", Sc(5)),
               Condition(<<"author", "id">>, "gte", Sc(10)) >>), "and">>,
      <<Lst(<< Condition(<<"author", "nope">>, "eq", Sc(1)) >>), "and">>,
      <<Lst(<< Condition(<<"nope">>, "eq", Sc(1)),
               Condition(<<"id">>, "gt", Sc(1)) >>), "and">>,
      <<Lst(<< Condition(<<"author", "profile", "bio">>, "is_null", NoneV) >>), "and">>,
      <<Lst(<< Condition(<<"profile", "bio">>, "eq", Sc(9)) >>), "and">>,
      <<Lst(<< Condition(<<"posts", "title">>, "eq", Sc(1)) >>), "and">>,
      <<Lst(<< Condition(<<"author">>, "eq", Sc(10)) >>), "and">>,
      <<Lst(<< ConditionGroup(<<>>, "and") >>), "and">>,
      <<Lst(<< ConditionGroup(<< Condition(<<"title">>, "eq", Sc(2)),
                                 Condition(<<"author", "email">>, "eq", Sc(4)) >>, "or"),
               Condition(<<"id">>, "lte", Sc(3)) >>), "and">>,
      <<Lst(<< ConditionGroup(<< ConditionGroup(<< Condition(<<"author", "id">>, "ne", Sc(10)),
                                                   Condition(<<"author", "email">>, "eq", Sc(4)) >>,
                                                "and"),
                                 Condition(<<"id">>, "eq", Sc(1)) >>, "or") >>), "and">>,
      <<Lst(<< ConditionGroup(<<>>, "and"),
               Condition(<<"title">>, "eq", Sc(1)),
               ConditionGroup(<< Condition(<<"id">>, "gte", Sc(3)),
                                 ConditionGroup(<<>>, "or"),
                                 Condition(<<"tags">>, "is_not_null", NoneV) >>, "and") >>),
        "or">> }

FieldChoices ==
    { NoneV,
      Lst(<<"tags">>),
      Lst(<<"id", "title">>),
      Lst(<<"nope", "tags", "id">>) }

RelationChoices ==
    { NoneV,
      Lst(<< RelationConfig("author", Lst(<<"email">>), NoneV) >>),
      Lst(<< RelationConfig("author", Lst(<<"email">>),
                 Lst(<< RelationConfig("profile", Lst(<<"bio">>), NoneV) >>)) >>),
      Lst(<< RelationConfig("author", NoneV,
                 Lst(<< RelationConfig("profile", NoneV, NoneV),
                        RelationConfig("posts", Lst(<<"title">>), NoneV) >>)) >>),
      Lst(<< RelationConfig("nope", NoneV, NoneV),
             RelationConfig("posts", Lst(<<"tags">>),
                 Lst(<< RelationConfig("author", Lst(<<"email">>), NoneV) >>)),
             RelationConfig("profile", Lst(<<"bio">>), NoneV) >>),
      Lst(<< RelationConfig("profile", NoneV, NoneV),
             RelationConfig("id", NoneV, NoneV),
             RelationConfig("posts", Lst(<<"title">>), NoneV),
             RelationConfig("author", NoneV, NoneV) >>) }

\* Filter.order_by with Filter.order_direction
OrderChoices ==
    { <<NoneV, "asc">>,
      <<Str(<<"title">>), "desc">>,
      <<Str(<<"author", "email">>), "asc">>,
      <<Str(<<"profile", "id">>), "desc">>,
      <<Str(<<"author", "nope">>), "asc">> }

\* limit: Optional[int], ge=1; offset: Optional[int], ge=0
LimitChoices == {Sc(n) : n \in 1..MaxLimit} \cup {NoneV}
OffsetChoices == {Sc(n) : n \in 0..MaxOffset}

Filter(c, fields, relations, o, limit, offset) ==
    [conditions |-> c[1], logical_operator |-> c[2],
     relations |-> relations, fields |-> fields,
     limit |-> limit, offset |-> offset,
     order_by |-> o[1], order_direction |-> o[2]]

FilterSpace ==
    { Filter(c, fields, relations, o, limit, offset) :
        c \in ConditionChoices, fields \in FieldChoices, relations \in RelationChoices,
        o \in OrderChoices, limit \in LimitChoices, offset \in OffsetChoices }

\* the services of test_services.py
ModelClasses == {"Post", "Author"}

----------------------------------------------------------------------------
(* Construction of the DSL objects from a request payload (pydantic).      *)

allowed_operators ==
    {"eq", "ne", "gt", "gte", "lt", "lte", "contains", "icontains", "startswith",
     "endswith", "in", "not_in", "is_null", "is_not_null"}

\* Condition.validate_operator: TRUE when it returns v, FALSE when it
\* raises ValueError
validate_operator(v) == v \in allowed_operators

\* Filter.limit: Field(default=10, ge=1, le=1000)
MaxFilterLimit == 1000

\* an Optional[int] field with bounds accepts None and the ints in ge..le
OptionalIntAccepts(x, ge, le) == IsNone(x) \/ (x.v >= ge /\ x.v <= le)

\* an Optional[int] field with a lower bound only
OptionalIntAcceptsFrom(x, ge) == IsNone(x) \/ x.v >= ge

RECURSIVE ConditionsConstruct(_)
\* every Condition of the list, at every group depth, passes its validator
ConditionsConstruct(conditions) ==
    \A i \in 1..Len(conditions) :
        IF conditions[i].kind = "Condition"
        THEN validate_operator(conditions[i].operator)
        ELSE ConditionsConstruct(conditions[i].conditions)

\* Filter(**payload) does not raise a ValidationError
FilterConstructs(payload) ==
    /\ IsNone(payload.conditions) \/ ConditionsConstruct(payload.conditions.v)
    /\ OptionalIntAccepts(payload.limit, 1, MaxFilterLimit)
    /\ OptionalIntAcceptsFrom(payload.offset, 0)

\* request payloads, valid and invalid
PayloadConditions ==
    { <<Lst(<< Condition(<<"title">>, operator, Sc(1)) >>), "and">> :
        operator \in allowed_operators \cup {"like", "EQ"} }
    \cup { <<Lst(<< ConditionGroup(<< Condition(<<"title">>, operator, Sc(1)) >>, "or"),
                    Condition(<<"id">>, "gte", Sc(2)) >>), "and">> :
             operator \in {"contains", "like"} }

PayloadSpace ==
    { Filter(c, NoneV, relations, <<NoneV, "asc">>, limit, offset) :
        c \in PayloadConditions,
        relations \in {NoneV, Lst(<< RelationConfig("author", Lst(<<"email">>), NoneV) >>)},
        limit \in {NoneV, Sc(0), Sc(1), Sc(MaxLimit), Sc(MaxFilterLimit),
                   Sc(MaxFilterLimit + 1)},
        offset \in {NoneV, Sc(-1), Sc(0), Sc(MaxOffset)} }

----------------------------------------------------------------------------
(* The rows as the response models serialise them (PostRead, AuthorRead,   *)
(* AuthorResponse): columns and relationship attributes, recursively.      *)

RECURSIVE Dump(_)
Dump(x) ==
    CASE x.t = "entity"   -> Obj([name \in DOMAIN x.v |-> Dump(x.v[name])])
      [] x.t = "filtered" -> Obj([name \in DOMAIN x.v |-> Dump(x.v[name])])
      [] x.t = "row"      -> Obj(_row_to_dict(x, NoneV))
      [] x.t = "list"     -> Lst([k \in 1..Len(x.v) |-> Dump(x.v[k])])
      [] OTHER            -> x

DumpAll(rows) == Lst([k \in 1..Len(rows) |-> Dump(rows[k])])

RECURSIVE RelationDicts(_)
\* the relations of a Filter written out as the dicts FieldFilter reads
RelationDicts(relations) ==
    IF ~Truthy(relations) THEN Lst(<<>>)
    ELSE Lst([k \in 1..Len(relations.v) |->
                RelationDict(relations.v[k].relation_name, relations.v[k].fields,
                             RelationDicts(relations.v[k].nested_relations))])

----------------------------------------------------------------------------
(* The state machine: one request against one service, answered by one of  *)
(* the service calls.                                                      *)

Init ==
    /\ model_class \in ModelClasses
    /\ filters \in FilterSpace
    /\ pc = "ready"
    /\ builder = QueryBuilder(model_class)
    /\ results = <<>>
    /\ cleaned = <<>>
    /\ count = -1
    /\ projected = NoneV
    /\ raised = "none"
    /\ exception = NoException
    /\ text = <<>>

\* the call returns r (or raises)
Answer(r) ==
    /\ builder' = r.builder
    /\ results' = r.results
    /\ raised' = r.raised
    /\ exception' = r.exception

GetWithFilters ==
    /\ pc = "ready"
    /\ Answer(get_with_filters(model_class, filters))
    /\ pc' = "get_with_filters"
    /\ UNCHANGED <<text, model_class, filters, cleaned, count, projected>>

AnswerClean(r) ==
    /\ Answer(r)
    /\ cleaned' = r.cleaned

GetWithFiltersClean ==
    /\ pc = "ready"
    /\ AnswerClean(get_with_filters_clean(model_class, filters))
    /\ pc' = "get_with_filters_clean"
    /\ UNCHANGED <<text, model_class, filters, count, projected>>

AnswerCount(r) ==
    /\ builder' = r.builder
    /\ count' = r.count
    /\ raised' = r.raised

CountWithFilters ==
    /\ pc = "ready"
    /\ AnswerCount(count_with_filters(model_class, filters))
    /\ pc' = "count_with_filters"
    /\ UNCHANGED <<text, model_class, filters, results, cleaned, projected, exception>>

\* the rows r of the query were projected to p, or the projection raised
AnswerProjected(r, p) ==
    /\ builder' = r.builder
    /\ results' = r.results
    /\ projected' = IF r.raised = "none" THEN p ELSE NoneV
    /\ raised' = IF r.raised # "none" THEN r.raised
                 ELSE IF IsError(p) THEN "AttributeError" ELSE "none"
    /\ exception' = IF r.raised # "none" THEN r.exception
                    ELSE IF IsError(p)
                         THEN [class |-> "AttributeError", message |-> "get",
                               error_type |-> "none"]
                         ELSE NoException

FilterResponseOf(r) ==
    AnswerProjected(r, filter_response(DumpAll(r.results), filters))

\* filter_response(data, filters) on the serialised rows of the query
FilterResponse ==
    /\ pc = "ready"
    /\ FilterResponseOf(get_with_filters(model_class, filters))
    /\ pc' = "filter_response"
    /\ UNCHANGED <<text, model_class, filters, cleaned, count>>

\* FieldFilter.filter_response_fields(data, fields, relations as dicts)
\* on the serialised rows of the query
FilterResponseFieldsOf(r) ==
    AnswerProjected(r, filter_response_fields(DumpAll(r.results), filters.fields,
                                              IF Truthy(filters.relations)
                                              THEN RelationDicts(filters.relations)
                                              ELSE NoneV))

FilterResponseFields ==
    /\ pc = "ready"
    /\ FilterResponseFieldsOf(get_with_filters(model_class, filters))
    /\ pc' = "filter_response_fields"
    /\ UNCHANGED <<text, model_class, filters, cleaned, count>>

\* the relations of the request as FieldFilter's callers pass them
RelationsArgument ==
    IF Truthy(filters.relations) THEN RelationDicts(filters.relations) ELSE NoneV

\* FieldFilter.filter_response_fields applied to its own output with the
\* same fields and relations
FilterResponseFieldsAgain ==
    /\ pc = "filter_response_fields"
    /\ raised = "none"
    /\ projected' = filter_response_fields(projected, filters.fields, RelationsArgument)
    /\ pc' = "filter_response_fields_again"
    /\ UNCHANGED <<text, model_class, filters, builder, results, cleaned, count, raised,
                   exception>>

\* the records of the query as dicts, each passed with filters.relations
\* through the None-pruning of its relations
CleanRelationsOf(r) ==
    AnswerProjected(r,
        Lst([k \in 1..Len(r.results) |->
                LET data == Dump(r.results[k]) IN
                IF data.t = "obj"
                THEN Obj(_clean_relations_none_values(data.v, filters.relations.v))
                ELSE data]))

\* _clean_relations_none_values(user_dict, filters.relations)
CleanRelationsNoneValues ==
    /\ pc = "ready"
    /\ Truthy(filters.relations)
    /\ CleanRelationsOf(get_with_filters(model_class, filters))
    /\ pc' = "_clean_relations_none_values"
    /\ UNCHANGED <<text, model_class, filters, cleaned, count>>

Next ==
    \/ FilterResponseFieldsAgain
    \/ CleanRelationsNoneValues
    \/ GetWithFilters
    \/ GetWithFiltersClean
    \/ CountWithFilters
    \/ FilterResponse
    \/ FilterResponseFields

Spec == Init /\ [][Next]_vars

----------------------------------------------------------------------------
(* The same service calls on a Filter built from a request payload.        *)

InitRequest ==
    /\ model_class \in ModelClasses
    /\ filters \in PayloadSpace
    /\ pc = "request"
    /\ builder = QueryBuilder(model_class)
    /\ results = <<>>
    /\ cleaned = <<>>
    /\ count = -1
    /\ projected = NoneV
    /\ raised = "none"
    /\ exception = NoException
    /\ text = <<>>

\* Filter(**payload): the Filter is built, or pydantic raises
ConstructFilter ==
    /\ pc = "request"
    /\ pc' = IF FilterConstructs(filters) THEN "ready" ELSE "rejected"
    /\ raised' = IF FilterConstructs(filters) THEN "none" ELSE "ValidationError"
    /\ exception' = IF FilterConstructs(filters) THEN NoException
                    ELSE [class |-> "ValidationError", message |-> "validation",
                          error_type |-> "none"]
    /\ UNCHANGED <<text, model_class, filters, builder, results, cleaned, count, projected>>

NextRequest ==
    \/ ConstructFilter
    \/ Next

SpecRequest == InitRequest /\ [][NextRequest]_vars

----------------------------------------------------------------------------
(* A contains / icontains condition on the title of a one-row table.       *)

MaxTextLen == 2

\* the texts of at most MaxTextLen characters
Texts == UNION {[1..n -> {"a", "A", "b", "%", "_"}] : n \in 0..MaxTextLen}

TextFilters ==
    { Filter(<<Lst(<< Condition(<<"title">>, operator, Txt(value)) >>), "and">>,
             NoneV, NoneV, <<NoneV, "asc">>, NoneV, Sc(0)) :
        operator \in {"contains", "icontains"}, value \in Texts }

InitText ==
    /\ model_class = "Post"
    /\ filters \in TextFilters
    /\ text \in Texts
    /\ pc = "ready"
    /\ builder = QueryBuilder(model_class)
    /\ results = <<>>
    /\ cleaned = <<>>
    /\ count = -1
    /\ projected = NoneV
    /\ raised = "none"
    /\ exception = NoException

\* the titles the database returns for the plan of builder b
SelectedTitles(b) ==
    IF \A k \in 1..Len(b.query.where) :
           EvalClause(b.query.where[k], [e \in {"Post"} |-> [title |-> Txt(text)]])
    THEN <<Txt(text)>>
    ELSE <<>>

\* get_with_filters for a Filter of one condition on the title, on the
\* one-row table
GetWithTextFilter ==
    /\ pc = "ready"
    /\ builder' = apply_pagination(ApplyConditions(QueryBuilder(model_class), filters),
                                   filters.limit, filters.offset)
    /\ results' = SelectedTitles(builder')
    /\ pc' = "get_with_filters"
    /\ UNCHANGED <<text, model_class, filters, cleaned, count, projected, raised, exception>>

NextText == GetWithTextFilter

SpecText == InitText /\ [][NextText]_vars

----------------------------------------------------------------------------
(* Properties *)

Built == pc \in {"get_with_filters", "get_with_filters_clean",
                 "filter_response", "filter_response_fields"}

\* the relation segments of a path, as <<entity, relation>> from the root,
\* up to the first segment that is no relationship
RECURSIVE Segments(_, _, _)
Segments(entity, path, i) ==
    IF i >= Len(path) \/ path[i] \notin RelationNames(entity) THEN <<>>
    ELSE <<<<entity, path[i]>>>> \o Segments(RelTarget(entity, path[i]), path, i + 1)

\* the entity a path ends on, "None" when a relation segment is unknown
RECURSIVE PathEntity(_, _, _)
PathEntity(entity, path, i) ==
    IF i >= Len(path) THEN entity
    ELSE IF path[i] \notin RelationNames(entity) THEN "None"
         ELSE PathEntity(RelTarget(entity, path[i]), path, i + 1)

\* every segment is a relationship and the last name a column of the
\* entity the path ends on
PathResolves(entity, path) ==
    /\ PathEntity(entity, path, 1) # "None"
    /\ path[Len(path)] \in Columns(PathEntity(entity, path, 1))

\* the attribute paths of a condition list, at every group depth
RECURSIVE ConditionPaths(_)
ConditionPaths(conditions) ==
    UNION { IF conditions[i].kind = "Condition"
            THEN {conditions[i].attribute}
            ELSE ConditionPaths(conditions[i].conditions) : i \in 1..Len(conditions) }

FilterConditionPaths(f) ==
    IF Truthy(f.conditions) THEN ConditionPaths(f.conditions.v) ELSE {}

\* the paths of the request that resolve and so need their joins
JoinPaths(mc, f) ==
    {p \in FilterConditionPaths(f) : PathResolves(mc, p)}
    \cup (IF Truthy(f.order_by) /\ PathResolves(mc, f.order_by.v)
          THEN {f.order_by.v} ELSE {})

RequiredJoins(mc, f) == UNION {SeqToSet(Segments(mc, p, 1)) : p \in JoinPaths(mc, f)}

\* the root-entity columns a returned row carries
RootFields(result) ==
    CASE result.t = "row"      -> SeqToSet(result._fields)
      [] result.t = "entity"   -> Columns(result.cls)
      [] result.t = "filtered" -> (DOMAIN result.v) \cap Columns(model_class)
      [] OTHER                 -> SeqToSet(builder.query.columns)

\* C1: when the Filter sets `fields`, the narrow field set is applied in the
\* query or re-applied in post-processing: every join a condition or
\* order_by needs is in the plan, and no returned row carries a root-entity
\* field outside the requested fields.
C1_FieldSelectionNeverIgnored ==
    (pc = "get_with_filters" /\ raised = "none" /\ Truthy(filters.fields))
    => /\ RequiredJoins(model_class, filters) \subseteq SeqToSet(builder.query.joins)
       /\ \A k \in 1..Len(results) :
              RootFields(results[k]) \subseteq SeqToSet(filters.fields.v)

\* C2: a Filter with a condition whose attribute path does not resolve makes
\* get_with_filters raise a QueryBuilderError; the query is never executed
\* with that condition left out.
C2_UnresolvedConditionRaises ==
    (pc = "get_with_filters"
     /\ \E p \in FilterConditionPaths(filters) : ~PathResolves(model_class, p))
    => raised = "QueryBuilderError"

\* result.name for a name the result has
ResultGet(result, name) ==
    IF result.t = "row"
    THEN result.v[CHOOSE k \in 1..Len(result._fields) : result._fields[k] = name]
    ELSE result.v[name]

\* the keys a cleaned record is to have: the requested fields and the
\* configured relations whose value on the raw result is not None
ExpectedKeys(result, f) ==
    {name \in SeqToSet(f.fields.v) :
         ResultHasAttr(result, name) /\ ~IsNone(ResultGet(result, name))}
    \cup {f.relations.v[i].relation_name : i \in
             {j \in 1..Len(f.relations.v) :
                  /\ ResultHasAttr(result, f.relations.v[j].relation_name)
                  /\ ~IsNone(ResultGet(result, f.relations.v[j].relation_name))}}

\* C3: every record of get_with_filters_clean for a Filter with fields F and
\* relations R, all of them attributes of the entity, has exactly the keys
\* of F plus the relation names of R whose values are not None (fields
\* [id, title] with relation author and a condition on author.email gives
\* the keys id, title, author).
C3_CleanRecordKeys ==
    (pc = "get_with_filters_clean" /\ raised = "none"
     /\ Truthy(filters.fields) /\ Truthy(filters.relations)
     /\ SeqToSet(filters.fields.v) \subseteq Columns(model_class)
     /\ \A i \in 1..Len(filters.relations.v) :
            filters.relations.v[i].relation_name \in RelationNames(model_class))
    => /\ Len(cleaned) = Len(results)
       /\ \A k \in 1..Len(cleaned) :
              /\ cleaned[k].t = "clean"
              /\ DOMAIN cleaned[k].v = ExpectedKeys(results[k], filters)

\* C4: each relation path segment (entity, relation name) is joined at most
\* once in the built plan, however many conditions and whether or not
\* order_by traverse it.
C4_EachSegmentJoinedOnce ==
    \A i, j \in 1..Len(builder.query.joins) :
        i # j => builder.query.joins[i] # builder.query.joins[j]

\* two conditions and order_by all traverse Post.author; one join is in the plan
C4_Witness ==
    /\ pc = "get_with_filters"
    /\ model_class = "Post"
    /\ Cardinality({p \in FilterConditionPaths(filters) :
                        Len(p) = 2 /\ p[1] = "author"}) >= 2
    /\ Truthy(filters.order_by)
    /\ filters.order_by.v = <<"author", "email">>
    /\ builder.query.joins = << <<"Post", "author">> >>
    /\ raised = "none"

\* the rows the built plan matches when LIMIT and OFFSET are taken off it
Unpaginated ==
    ExecQuery([builder.query EXCEPT !.limit = NoneV, !.offset = NoneV], model_class).rows

\* C5: get_with_filters returns exactly the rows at positions offset+1 ..
\* offset+limit of the matched rows in the requested order, never more than
\* limit rows; limit and offset are on the plan after everything else.
C5_PageOfMatchedRows ==
    (pc = "get_with_filters" /\ raised = "none")
    => LET all == Unpaginated
           first == filters.offset.v + 1
           last == IF IsNone(filters.limit) \/ filters.offset.v + filters.limit.v > Len(all)
                   THEN Len(all)
                   ELSE filters.offset.v + filters.limit.v
       IN  /\ results = PostProcess(builder, filters, SubSeq(all, first, last))
           /\ ~IsNone(filters.limit) => Len(results) <= filters.limit.v
           /\ builder.query.limit = filters.limit
           /\ builder.query.offset = filters.offset

\* limit 2, offset 1 over the four posts: the posts 2 and 3 are returned
C5_Witness ==
    /\ pc = "get_with_filters"
    /\ model_class = "Post"
    /\ filters.limit = Sc(2) /\ filters.offset = Sc(1)
    /\ ~Truthy(filters.conditions) /\ ~Truthy(filters.order_by)
    /\ ~Truthy(filters.fields)
    /\ Len(Unpaginated) >= 4
    /\ Len(results) = 2
    /\ results[1].v.id = Sc(2) /\ results[2].v.id = Sc(3)

\* the Filter that keeps only conditions and logical_operator
ConditionsOnly(f, limit) ==
    Filter(<<f.conditions, f.logical_operator>>, NoneV, NoneV, <<NoneV, "asc">>,
           limit, Sc(0))

\* C6: count_with_filters returns the number of rows get_with_filters
\* returns for the same conditions with offset 0 and a limit no smaller
\* than the number of matching rows.
C6_CountEqualsNumberOfRows ==
    pc = "count_with_filters"
    => LET r == get_with_filters(model_class, ConditionsOnly(filters, Sc(1000))) IN
       r.raised = "none" => count = Len(r.results)

\* C7: the count and its plan depend only on conditions and
\* logical_operator: relations, fields, order_by, order_direction, limit
\* and offset change neither, and the count query has no LIMIT or OFFSET.
C7_CountIgnoresTheRest ==
    pc = "count_with_filters"
    => LET r == count_with_filters(model_class, ConditionsOnly(filters, NoneV)) IN
       /\ count = r.count
       /\ builder.query = r.builder.query
       /\ IsNone(builder.query.limit) /\ IsNone(builder.query.offset)
       /\ builder.query.order = <<>> /\ builder.query.options = <<>>
       /\ ~builder.query.narrow

\* a count for a Filter that sets everything else as well
C7_Witness ==
    /\ pc = "count_with_filters"
    /\ filters.limit = Sc(1) /\ filters.offset = Sc(1)
    /\ Truthy(filters.fields) /\ Truthy(filters.relations) /\ Truthy(filters.order_by)
    /\ filters.order_direction = "desc"
    /\ Len(builder.query.where) = 1
    /\ IsNone(builder.query.limit)

\* the relation configs of the request as FieldFilter reads them
RequestedRelations == RelationDicts(filters.relations).v

Projected == pc \in {"filter_response", "filter_response_fields"}
                /\ raised = "none" /\ Truthy(filters.relations)
                /\ projected.t = "list" /\ Len(projected.v) = Len(results)

\* C8: in the non-clean projection a configured relation whose value on the
\* record is None is in the projected record with value None.
C8_NoneRelationKept ==
    Projected
    => \A k \in 1..Len(results) : \A i \in 1..Len(RequestedRelations) :
           LET data == Dump(results[k])
               name == RequestedRelations[i].relation_name
           IN  (data.t = "obj" /\ name \in DOMAIN data.v /\ IsNone(data.v[name]))
               => /\ name \in DOMAIN projected.v[k].v
                  /\ IsNone(projected.v[k].v[name])

\* a configured relation that is [] on the data is [] on the projection,
\* at this level and below
RECURSIVE EmptyListsKept(_, _, _)
EmptyListsKept(data, proj, relations) ==
    \A i \in 1..Len(relations) :
        LET name == relations[i].relation_name IN
        (data.t = "obj" /\ name \in DOMAIN data.v /\ ~IsNone(data.v[name]))
        => /\ proj.t = "obj" /\ name \in DOMAIN proj.v
           /\ LET d == data.v[name]
                  p == proj.v[name]
              IN  CASE d.t = "list" ->
                         /\ p.t = "list" /\ Len(p.v) = Len(d.v)
                         /\ \A j \in 1..Len(d.v) :
                                EmptyListsKept(d.v[j], p.v[j], relations[i].relations.v)
                    [] d.t = "obj" -> EmptyListsKept(d, p, relations[i].relations.v)
                    [] OTHER -> TRUE

\* C9: in the non-clean projection a configured relation, top-level or
\* nested, whose value is an empty list is an empty list in the projected
\* record: not None and not an omitted key.
C9_EmptyListRelationKept ==
    Projected
    => \A k \in 1..Len(results) :
           EmptyListsKept(Dump(results[k]), projected.v[k], RequestedRelations)

\* an author without posts projected with relation posts, and a post whose
\* author carries no posts projected with author(nested posts)
C9_Witness ==
    /\ Projected
    /\ \/ /\ model_class = "Author"
          /\ \E k \in 1..Len(results) :
                 /\ projected.v[k].t = "obj"
                 /\ "posts" \in DOMAIN projected.v[k].v
                 /\ projected.v[k].v["posts"] = Lst(<<>>)
                 /\ \E i \in 1..Len(RequestedRelations) :
                        RequestedRelations[i].relation_name = "posts"

C9_WitnessNested ==
    /\ Projected
    /\ model_class = "Post"
    /\ \E k \in 1..Len(results) :
           /\ projected.v[k].t = "obj"
           /\ "author" \in DOMAIN projected.v[k].v
           /\ projected.v[k].v["author"].t = "obj"
           /\ "posts" \in DOMAIN projected.v[k].v["author"].v
           /\ projected.v[k].v["author"].v["posts"] = Lst(<<>>)
           /\ \E i \in 1..Len(RequestedRelations) :
                  /\ RequestedRelations[i].relation_name = "author"
                  /\ \E j \in 1..Len(RequestedRelations[i].relations.v) :
                         RequestedRelations[i].relations.v[j].relation_name = "posts"

RECURSIVE NoNoneInside(_)
NoNoneInside(x) ==
    CASE x.t \in {"clean", "obj"} ->
             \A key \in DOMAIN x.v : ~IsNone(x.v[key]) /\ NoNoneInside(x.v[key])
      [] x.t = "list" -> \A j \in 1..Len(x.v) : NoNoneInside(x.v[j])
      [] OTHER -> TRUE

\* C10: no record of get_with_filters_clean holds a key whose value is
\* None, at the top level or inside a relation or nested relation.
C10_NoNoneInCleanRecords ==
    pc = "get_with_filters_clean"
    => \A k \in 1..Len(cleaned) : ~IsNone(cleaned[k]) /\ NoNoneInside(cleaned[k])

\* a post without tags whose cleaned record has lost the key
C10_Witness ==
    /\ pc = "get_with_filters_clean"
    /\ raised = "none"
    /\ \E k \in 1..Len(results) :
           /\ results[k].t = "entity"
           /\ IsNone(results[k].v["tags"])
           /\ k <= Len(cleaned)
           /\ cleaned[k].t = "clean"
           /\ "tags" \notin DOMAIN cleaned[k].v
           /\ cleaned[k].v["id"] = results[k].v["id"]

\* a relation value that is a list of n records is a list of n records on
\* the projection and a single record stays a single record, at this
\* level and below
RECURSIVE ListOrSingleKept(_, _, _)
ListOrSingleKept(data, proj, relations) ==
    \A i \in 1..Len(relations) :
        LET name == relations[i].relation_name IN
        (data.t = "obj" /\ name \in DOMAIN data.v /\ ~IsNone(data.v[name]))
        => LET d == data.v[name] IN
           CASE d.t = "list" ->
                  /\ proj.t = "obj" /\ name \in DOMAIN proj.v
                  /\ proj.v[name].t = "list"
                  /\ Len(proj.v[name].v) = Len(d.v)
                  /\ \A j \in 1..Len(d.v) :
                         ListOrSingleKept(d.v[j], proj.v[name].v[j],
                                          relations[i].relations.v)
             [] d.t = "obj" ->
                  /\ proj.t = "obj"
                  /\ name \in DOMAIN proj.v
                     => /\ proj.v[name].t = "obj"
                        /\ ListOrSingleKept(d, proj.v[name], relations[i].relations.v)
             [] OTHER -> TRUE

\* the projection ran in default mode (FieldFilter) or in clean mode
ProjectedOrCleaned ==
    /\ pc \in {"filter_response", "filter_response_fields", "_clean_relations_none_values"}
    /\ raised = "none" /\ Truthy(filters.relations)
    /\ projected.t = "list" /\ Len(projected.v) = Len(results)

\* C11: projection keeps the list-vs-single identity of relation values, in
\* default and in clean mode and at every depth: a list of n related
\* records projects to a list of exactly n records, a single record to a
\* single record.
C11_ListOrSingleKept ==
    ProjectedOrCleaned
    => \A k \in 1..Len(results) :
           ListOrSingleKept(Dump(results[k]), projected.v[k], RequestedRelations)

\* the default mode taken alone
C11_DefaultModeKeepsLists ==
    Projected
    => \A k \in 1..Len(results) :
           ListOrSingleKept(Dump(results[k]), projected.v[k], RequestedRelations)

----------------------------------------------------------------------------
(* Projection by a RelationConfig that has fields and nested_relations.    *)

\* the keys of dict d that carry a value
ValuedKeys(d) == {key \in DOMAIN d : ~IsNone(d[key])}

\* record p holds nothing but the fields of config and its nested relation
\* names, and holds every one of them that has a value in d
OnlyConfigKeys(d, p, config) ==
    LET wanted == SeqToSet(config.fields.v)
        nested == RelationNameSet(config.nested_relations.v)
    IN  /\ DOMAIN p \subseteq wanted \cup nested
        /\ \A field \in (wanted \ nested) \cap ValuedKeys(d) :
               field \in DOMAIN p /\ p[field] = d[field]

\* the nested record of d under the nested config is in p with nothing but
\* the nested config's fields
NestedRecordKept(d, p, nested_config) ==
    LET name == nested_config.relation_name IN
    (/\ name \in DOMAIN d
     /\ d[name].t = "obj"
     /\ Truthy(nested_config.fields)
     /\ ~Truthy(nested_config.nested_relations)
     /\ SeqToSet(nested_config.fields.v) \cap ValuedKeys(d[name].v) # {})
        => /\ name \in DOMAIN p
           /\ p[name].t = "obj"
           /\ DOMAIN p[name].v \subseteq SeqToSet(nested_config.fields.v)
           /\ \A field \in SeqToSet(nested_config.fields.v) \cap ValuedKeys(d[name].v) :
                  field \in DOMAIN p[name].v /\ p[name].v[field] = d[name].v[field]

ConfigKept(d, p, config) ==
    /\ p.t = "obj"
    /\ OnlyConfigKeys(d.v, p.v, config)
    /\ \A j \in 1..Len(config.nested_relations.v) :
           NestedRecordKept(d.v, p.v, config.nested_relations.v[j])

\* the RelationConfigs of the Filter that have both fields and
\* nested_relations, with the records of the query they apply to
ConfigCases ==
    { <<i, k>> \in (1..Len(filters.relations.v)) \X (1..Len(results)) :
        LET config == filters.relations.v[i]
            data == Dump(results[k])
        IN  /\ Truthy(config.fields)
            /\ Truthy(config.nested_relations)
            /\ data.t = "obj"
            /\ config.relation_name \in DOMAIN data.v
            /\ data.v[config.relation_name].t = "obj" }

FilterDriven ==
    /\ pc \in {"filter_response", "_clean_relations_none_values"}
    /\ raised # "QueryBuilderError"
    /\ Truthy(filters.relations)

\* C12: a projection driven by a Filter whose RelationConfig has fields and
\* nested_relations leaves in that relation's record only the config's
\* fields and the nested relation names, and in the nested record only the
\* nested config's fields (author(fields [email], nested profile(fields
\* [bio])) gives author = {email, profile} and author.profile = {bio}).
C12_FieldsAndNestedKept ==
    (FilterDriven /\ ConfigCases # {})
        => /\ raised = "none"
           /\ projected.t = "list"
           /\ Len(projected.v) = Len(results)
           /\ \A c \in ConfigCases :
                  LET name == filters.relations.v[c[1]].relation_name IN
                  /\ projected.v[c[2]].t = "obj"
                  /\ name \in DOMAIN projected.v[c[2]].v
                  /\ ConfigKept(Dump(results[c[2]]).v[name],
                                projected.v[c[2]].v[name],
                                filters.relations.v[c[1]])

C12_DefaultMode == (pc = "filter_response") => C12_FieldsAndNestedKept
C12_CleanMode == (pc = "_clean_relations_none_values") => C12_FieldsAndNestedKept

----------------------------------------------------------------------------
\* C13: FieldFilter.filter_response_fields is idempotent: applied to its
\* own output with the same fields and relations it returns that output
\* (two applications give what one application gives).
C13_ProjectionIdempotent ==
    (pc = "filter_response_fields_again")
        => projected = filter_response_fields(DumpAll(results), filters.fields,
                                              RelationsArgument)

\* the second application ran on several records, from each of which the
\* first one had removed fields of a related record
C13_Witness ==
    /\ pc = "filter_response_fields_again"
    /\ Truthy(filters.relations)
    /\ Len(results) >= 2
    /\ projected.t = "list"
    /\ Len(projected.v) = Len(results)
    /\ \A k \in 1..Len(results) :
           /\ projected.v[k].t = "obj"
           /\ \E name \in DOMAIN projected.v[k].v :
                  /\ projected.v[k].v[name].t = "obj"
                  /\ DOMAIN projected.v[k].v[name].v # DOMAIN Dump(results[k]).v[name].v

----------------------------------------------------------------------------
(* The exceptions that leave get_with_filters and get_with_filters_clean.  *)

QueryCall == pc \in {"get_with_filters", "get_with_filters_clean"}

\* C14: every exception that escapes get_with_filters or
\* get_with_filters_clean is a QueryBuilderError: one raised by the builder
\* escapes as it was raised, any other exception escapes wrapped in one.
C14_OnlyQueryBuilderErrorEscapes ==
    QueryCall =>
        /\ raised \in {"none", "QueryBuilderError"}
        /\ exception.class = raised
        /\ builder.error => exception = ConditionError
        /\ (raised # "none" /\ ~builder.error)
               => exception.message = "Error ejecutando consulta"

\* both calls raised for a failing condition and for a failing statement
C14_Witness ==
    /\ pc = "get_with_filters_clean"
    /\ raised = "QueryBuilderError"
    /\ ~builder.error
    /\ exception.message = "Error ejecutando consulta"

C14_WitnessBuilder ==
    /\ pc = "get_with_filters"
    /\ builder.error
    /\ exception = ConditionError

\* C15: when executing the built query on the session fails inside
\* get_with_filters, the error that reaches the caller has the kind
\* DATABASE_ERROR, the kind of QueryBuilderError.database_error.
C15_ExecutionFailureIsDatabaseError ==
    (pc = "get_with_filters" /\ raised # "none" /\ ~builder.error)
        => /\ exception.class = "QueryBuilderError"
           /\ exception.error_type = database_error("statement").error_type

----------------------------------------------------------------------------
(* A relation whose loader cannot be attached.                             *)

\* the builder of the request when apply_relations is called
BeforeRelations ==
    ApplyConditions(SelectFields(analyze_requirements(QueryBuilder(model_class), filters),
                                 filters), filters)

FailingRelations ==
    {i \in 1..Len(filters.relations.v) :
        LoaderRaises(model_class, filters.relations.v[i].relation_name)}

AttachableRelations ==
    {i \in 1..Len(filters.relations.v) :
        filters.relations.v[i].relation_name \in RelationNames(model_class)}

\* the request without the relations whose loader raises
WithoutFailingRelations ==
    [filters EXCEPT !.relations =
        Lst(SelectSeq(filters.relations.v,
                      LAMBDA c : ~LoaderRaises(model_class, c.relation_name)))]

\* apply_relations changed nothing of plan a but its loaders, and attached
\* one loader for each relation of the list that can be loaded
OnlyLoadersAdded(a, b) ==
    /\ b.query.where = a.query.where
    /\ b.query.joins = a.query.joins
    /\ b.joins_applied = a.joins_applied
    /\ b.error = a.error
    /\ Len(b.query.options) = Len(a.query.options) + Cardinality(AttachableRelations)
    /\ \A n \in 1..Len(a.query.options) : b.query.options[n] = a.query.options[n]
    /\ \A i \in AttachableRelations :
           \E n \in 1..Len(b.query.options) :
               b.query.options[n][1].rel = filters.relations.v[i].relation_name

----------------------------------------------------------------------------
(* An order_by that does not resolve.                                      *)

\* the builder of the request when apply_ordering is called
BeforeOrdering == ApplyRelations(BeforeRelations, filters)

OrderUnresolved ==
    /\ Truthy(filters.order_by)
    /\ ~PathResolves(model_class, filters.order_by.v)

\* C17: when order_by does not resolve (unknown root attribute, unknown
\* relation segment, unknown attribute of the related entity) apply_ordering
\* is a no-op: the query and joins_applied after it are those before it, no
\* ORDER BY and no join is added and nothing is raised.
C17_UnresolvedOrderIsNoOp ==
    (/\ pc = "get_with_filters"
     /\ OrderUnresolved
     /\ ~BeforeOrdering.error)
        => /\ apply_ordering(BeforeOrdering, filters.order_by,
                             filters.order_direction).query = BeforeOrdering.query
           /\ builder.joins_applied = BeforeOrdering.joins_applied
           /\ builder.query.joins = BeforeOrdering.query.joins
           /\ builder.query.order = <<>>
           /\ ~builder.error

\* the same for an order_by whose first segment is unknown
C17_UnknownFirstSegment ==
    (Truthy(filters.order_by) /\ ~HasAttr(model_class, filters.order_by.v[1]))
        => C17_UnresolvedOrderIsNoOp

----------------------------------------------------------------------------
(* The DSL bounds of the Filters that reach the builder.                   *)

RECURSIVE OperatorsAllowed(_)
OperatorsAllowed(conditions) ==
    \A i \in 1..Len(conditions) :
        IF conditions[i].kind = "Condition"
        THEN conditions[i].operator \in allowed_operators
        ELSE OperatorsAllowed(conditions[i].conditions)

\* the Filter was handed to a QueryBuilder
ReachedBuilder == pc \notin {"request", "rejected", "ready"}

\* C18: every Filter that reaches the QueryBuilder satisfies the DSL
\* bounds: the operator of each Condition is one of the 14 allowed ones,
\* limit is an integer in 1..1000 and offset is an integer >= 0; a payload
\* that violates one of them is rejected at construction.
C18_FilterWithinBounds ==
    /\ ReachedBuilder =>
           /\ IsNone(filters.conditions) \/ OperatorsAllowed(filters.conditions.v)
           /\ filters.limit.t = "sc"
           /\ filters.limit.v \in 1..MaxFilterLimit
           /\ filters.offset.t = "sc"
           /\ filters.offset.v >= 0
    /\ (pc = "rejected") => raised = "ValidationError"

\* the part of C18 that leaves None aside
C18_BoundsWhenGiven ==
    ReachedBuilder =>
        /\ IsNone(filters.conditions) \/ OperatorsAllowed(filters.conditions.v)
        /\ IsNone(filters.limit) \/ filters.limit.v \in 1..MaxFilterLimit
        /\ IsNone(filters.offset) \/ filters.offset.v >= 0

\* the Filters of the other specification are all constructible
FilterSpaceConstructs == \A f \in FilterSpace : FilterConstructs(f)

----------------------------------------------------------------------------
(* The predicate of a condition tree.                                      *)

RECURSIVE TreeValue(_, _, _)
\* the boolean value of a list of conditions and groups under an operator
\* on one joined row: "absent" when no entry has a value
TreeValue(conditions, logical_operator, binding) ==
    LET value(c) ==
            IF c.kind = "Condition"
            THEN IF Compare(binding[PathEntity(model_class, c.attribute, 1)]
                                   [c.attribute[Len(c.attribute)]],
                            c.operator, c.value)
                 THEN "true" ELSE "false"
            ELSE TreeValue(c.conditions, c.logical_operator, binding)
        values == {value(conditions[i]) : i \in 1..Len(conditions)} \ {"absent"}
    IN  IF values = {} THEN "absent"
        ELSE IF logical_operator = "or"
             THEN IF "true" \in values THEN "true" ELSE "false"
             ELSE IF "false" \in values THEN "false" ELSE "true"

\* the value of the WHERE clauses of a query on one joined row
WhereValue(where, binding) ==
    IF Len(where) = 0 THEN "absent"
    ELSE IF \A k \in 1..Len(where) : EvalClause(where[k], binding)
         THEN "true" ELSE "false"

\* the rows the query of builder b joins, before WHERE
JoinedRows(b) ==
    JoinAll([k \in 1..Len(Table(b.model_class)) |->
                [e \in {b.model_class} |-> Table(b.model_class)[k]]],
            b.query.joins, 1)

\* the request has conditions and every one of them names a column
ConditionsResolve ==
    /\ Truthy(filters.conditions)
    /\ \A p \in FilterConditionPaths(filters) : PathResolves(model_class, p)
    /\ \A p \in FilterConditionPaths(filters) :
           SeqToSet(Segments(model_class, p, 1)) \subseteq
               SeqToSet(BeforeRelations.query.joins)

\* C19: the predicate apply_conditions builds is the recursive boolean
\* evaluation of the condition tree: a group combines its direct children
\* with its own logical_operator, the Filter's logical_operator combines the
\* top-level entries, and an empty group contributes no predicate.
C19_PredicateIsTreeValue ==
    (pc = "get_with_filters" /\ ConditionsResolve)
        => /\ ~BeforeRelations.error
           /\ \A k \in 1..Len(JoinedRows(BeforeRelations)) :
                  WhereValue(BeforeRelations.query.where, JoinedRows(BeforeRelations)[k])
                      = TreeValue(filters.conditions.v, filters.logical_operator,
                                  JoinedRows(BeforeRelations)[k])

\* the top-level OR of an empty group, a condition and a group that holds
\* two conditions and an empty group kept some rows and dropped others
C19_Witness ==
    /\ pc = "get_with_filters"
    /\ ConditionsResolve
    /\ raised = "none"
    /\ filters.logical_operator = "or"
    /\ IsNone(filters.limit)
    /\ IsNone(filters.order_by)
    /\ Len(filters.conditions.v) = 3
    /\ Len(builder.query.where) = 1
    /\ Len(results) > 0
    /\ Len(results) < NumPosts

----------------------------------------------------------------------------
(* Substring matching.                                                     *)

\* sub occurs in chars as a run of consecutive characters
Contains(chars, sub) ==
    \E i \in 0..(Len(chars) - Len(sub)) : SubSeq(chars, i + 1, i + Len(sub)) = sub

TextCondition == filters.conditions.v[1]

TextSelected == pc = "get_with_filters" /\ Len(filters.conditions.v) = 1

\* C20: icontains matches exactly the rows whose column contains the value
\* as a substring ignoring case, contains exactly those that contain it
\* with case respected; no character of the value acts as a wildcard.
C20_SubstringMatch ==
    TextSelected =>
        ((Len(results) = 1)
            <=> IF TextCondition.operator = "icontains"
                THEN Contains(LowerText(text), LowerText(TextCondition.value.v))
                ELSE Contains(text, TextCondition.value.v))

\* the same for the values that hold neither % nor _
C20_WithoutWildcards ==
    (TextSelected /\ SeqToSet(TextCondition.value.v) \cap {"%", "_"} = {})
        => C20_SubstringMatch

----------------------------------------------------------------------------
(* The upfront join analysis.                                              *)

\* some condition attribute or the order_by of the request has a '.'
HasRelationPath ==
    \/ \E p \in FilterConditionPaths(filters) : Len(p) > 1
    \/ Truthy(filters.order_by) /\ Len(filters.order_by.v) > 1

\* C21: analyze_requirements marks the build as requiring joins exactly
\* when a condition attribute, at any group depth, or order_by holds a
\* relation path, also for a Filter with an order_by through a relation and
\* no conditions.
C21_RequiresJoinsIffRelationPath ==
    (pc = "get_with_filters") => (builder._requires_joins <=> HasRelationPath)

\* the same for the requests that have conditions
C21_WithConditions ==
    (pc = "get_with_filters" /\ Truthy(filters.conditions))
        => (builder._requires_joins <=> HasRelationPath)

----------------------------------------------------------------------------
(* Records derived from positional rows.                                   *)

\* the value of the column called name in a Row
ColumnOf(row, name) ==
    row.v[CHOOSE k \in 1..Len(row._fields) : row._fields[k] = name]

\* every key of record d holds the value of the row's column of that name
KeysHoldTheirColumns(d, row) ==
    \A key \in DOMAIN d :
        /\ key \in SeqToSet(row._fields)
        /\ d[key] = ColumnOf(row, key)

\* C22: for a positional row (a narrow field selection was applied) every
\* key k of the record _row_to_dict derives holds the value of the row's
\* column named k, whatever the requested fields, unknown names included.
C22_RowKeysHoldTheirColumns ==
    (pc = "get_with_filters_clean" /\ raised = "none")
        => \A k \in 1..Len(results) :
               results[k].t = "row"
                   => KeysHoldTheirColumns(_row_to_dict(results[k], filters.fields),
                                           results[k])

\* the same when every requested field is an attribute of the entity
C22_KnownFieldsOnly ==
    (Truthy(filters.fields)
     /\ \A i \in 1..Len(filters.fields.v) : HasAttr(model_class, filters.fields.v[i]))
        => C22_RowKeysHoldTheirColumns

----------------------------------------------------------------------------
(* A narrow field selection reverted to add a join.                        *)

\* every element of sequence s occurs in sequence t
AllIn(s, t) == \A n \in 1..Len(s) : \E m \in 1..Len(t) : t[m] = s[n]

\* query q still has the where clauses, joins and loaders of query p
PlanKept(p, q) ==
    /\ AllIn(p.where, q.where)
    /\ AllIn(p.joins, q.joins)
    /\ AllIn(p.options, q.options)

AfterOrdering == ApplyOrdering(BeforeOrdering, filters)

\* apply_ordering reverted the field selection of the request
OrderingReverted ==
    /\ ~BeforeOrdering.error
    /\ BeforeOrdering._field_selection_applied
    /\ ~AfterOrdering._field_selection_applied

\* C23: when a narrow field selection is reverted to a full-entity
\* selection to add a join, the where clauses, the earlier joins and the
\* eager-load directives attached to the plan before are still in it.
C23_RevertKeepsPlan ==
    (pc = "get_with_filters" /\ OrderingReverted)
        => /\ PlanKept(BeforeOrdering.query, AfterOrdering.query)
           /\ PlanKept(BeforeOrdering.query, builder.query)

----------------------------------------------------------------------------
(* A relation-path condition that yields no clause.                        *)

\* the builder of the request when apply_conditions is called
BeforeConditions ==
    SelectFields(analyze_requirements(QueryBuilder(model_class), filters), filters)

\* the top-level conditions of the request through a relation path that
\* give no clause when they are applied first
ClauselessRelationConditions ==
    {i \in 1..Len(filters.conditions.v) :
        /\ filters.conditions.v[i].kind = "Condition"
        /\ Len(filters.conditions.v[i].attribute) > 1
        /\ ~_apply_single_condition(BeforeConditions, filters.conditions.v[i]).b.error
        /\ _apply_single_condition(BeforeConditions, filters.conditions.v[i]).clause
               = NoClause}

\* C24: a condition through a relation path that yields no clause leaves
\* the plan as it was: no join is added to the query and joins_applied is
\* what it was before the condition was processed.
C24_ClauselessConditionAddsNoJoin ==
    (pc = "get_with_filters" /\ Truthy(filters.conditions))
        => \A i \in ClauselessRelationConditions :
               LET after == _apply_single_condition(BeforeConditions,
                                                    filters.conditions.v[i]).b
               IN  /\ after.query = BeforeConditions.query
                   /\ after.joins_applied = BeforeConditions.joins_applied
                   /\ (Len(filters.conditions.v) = 1
                          => /\ BeforeRelations.query.joins = <<>>
                             /\ BeforeRelations.joins_applied = {})

\* the same for a condition whose first segment is no attribute
C24_UnknownFirstSegment ==
    (Truthy(filters.conditions)
     /\ \A i \in ClauselessRelationConditions :
            ~HasAttr(model_class, filters.conditions.v[i].attribute[1]))
        => C24_ClauselessConditionAddsNoJoin

----------------------------------------------------------------------------
(* One QueryBuilder instance driven operation by operation, in any order,  *)
(* with the arguments of one Filter.                                       *)

\* number of operations called on the instance
MaxOps == 3

\* a new instance; the operations take their arguments from one request
\* without a page and with at most one condition
InitBuilder ==
    /\ model_class \in ModelClasses
    /\ filters \in {f \in FilterSpace :
                        /\ IsNone(f.limit) /\ f.offset = Sc(0)
                        /\ Truthy(f.conditions)
                               => /\ Len(f.conditions.v) = 1
                                  /\ f.conditions.v[1].kind = "Condition"}
    /\ pc = "QueryBuilder"
    /\ builder = QueryBuilder(model_class)
    /\ results = <<>>
    /\ cleaned = <<>>
    /\ count = 0
    /\ projected = NoneV
    /\ raised = "none"
    /\ exception = NoException
    /\ text = <<>>

\* the operation left the instance as b; an exception it raised reached
\* the caller, who still holds the instance
Called(b, name) ==
    /\ pc \in {"QueryBuilder", "called"}
    /\ count < MaxOps
    /\ builder' = [b EXCEPT !.error = FALSE]
    /\ raised' = IF b.error THEN "QueryBuilderError" ELSE "none"
    /\ pc' = "called"
    /\ count' = count + 1
    /\ text' = <<name>>
    /\ UNCHANGED <<model_class, filters, results, cleaned, projected, exception>>

\* one operation of the instance is called with its argument of the request
NextBuilder ==
    \/ Called(analyze_requirements(builder, filters), "analyze_requirements")
    \/ Called(apply_field_selection(builder, filters.fields), "apply_field_selection")
    \/ Called(apply_conditions(builder, filters.conditions, filters.logical_operator),
              "apply_conditions")
    \/ /\ Truthy(filters.relations)
       /\ Called(apply_relations(builder, filters.relations.v), "apply_relations")
    \/ Called(apply_ordering(builder, filters.order_by, filters.order_direction),
              "apply_ordering")
    \/ Called(apply_pagination(builder, filters.limit, filters.offset), "apply_pagination")

SpecBuilder == InitBuilder /\ [][NextBuilder]_vars

\* C25: after any sequence of QueryBuilder operations on one instance,
\* every join key of joins_applied is a join of the current query.
C25_AppliedJoinsAreInQuery ==
    (pc = "called")
        => \A join_key \in builder.joins_applied :
               \E n \in 1..Len(builder.query.joins) : builder.query.joins[n] = join_key

\* the same in the order get_with_filters calls the operations
C25_InPipelineOrder ==
    (pc \in {"get_with_filters", "count_with_filters"})
        => \A join_key \in builder.joins_applied :
               \E n \in 1..Len(builder.query.joins) : builder.query.joins[n] = join_key

----------------------------------------------------------------------------
(* Eager-load directives of the requested relations.                       *)

\* the step a relation config asks for on the entity it hangs off
ConfigStep(model, config) ==
    LET step == LoaderStep(model, config.relation_name, config.load_strategy)
        valid_fields == IF Truthy(config.fields)
                        THEN ValidFields(RelTarget(model, config.relation_name),
                                         config.fields.v)
                        ELSE <<>>
    IN  IF Len(valid_fields) > 0 THEN [step EXCEPT !.only = Lst(valid_fields)] ELSE step

\* some directive of the plan starts with the steps of path
LoaderAttached(options, path) ==
    \E n \in 1..Len(options) :
        /\ Len(options[n]) >= Len(path)
        /\ SubSeq(options[n], 1, Len(path)) = path

RECURSIVE LoadersAttached(_, _, _, _)
\* every config of configs that names a relationship of model has its
\* loader under the steps of parent, and so have its nested relations
LoadersAttached(options, parent, model, configs) ==
    \A i \in 1..Len(configs) :
        configs[i].relation_name \in RelationNames(model)
            => /\ LoaderAttached(options, Append(parent, ConfigStep(model, configs[i])))
               /\ Truthy(configs[i].nested_relations)
                      => LoadersAttached(options,
                                         Append(parent, ConfigStep(model, configs[i])),
                                         RelTarget(model, configs[i].relation_name),
                                         configs[i].nested_relations.v)

\* C26: every requested relation that exists on the root entity has an
\* eager-load directive in the plan, and every nested relation, at every
\* depth, has a loader attached under its parent's loader (siblings under
\* the same parent), each restricted to its own fields.
C26_EveryRelationHasItsLoader ==
    (pc = "get_with_filters" /\ Truthy(filters.relations) /\ ~BeforeRelations.error)
        => LoadersAttached(BeforeOrdering.query.options, <<>>, model_class,
                           filters.relations.v)

\* the same for requests where no relation has more than one nested relation
C26_SingleNested ==
    (Truthy(filters.relations)
     /\ \A i \in 1..Len(filters.relations.v) :
            Truthy(filters.relations.v[i].nested_relations)
                => Len(filters.relations.v[i].nested_relations.v) = 1)
        => C26_EveryRelationHasItsLoader

----------------------------------------------------------------------------
(* The cleaned records against the rows of the query.                      *)

\* C27: get_with_filters_clean returns exactly one record per row that
\* get_with_filters returns for the same request, in the same order:
\* cleaning removes keys from a record, never a record.
C27_OneRecordPerRow ==
    (pc = "get_with_filters_clean" /\ raised = "none")
        => /\ Len(cleaned) = Len(results)
           /\ \A k \in 1..Len(cleaned) :
                  cleaned[k] = _process_single_result(results[k], filters)

\* the records that are returned are those of the rows, in the rows' order
C27_InRowOrder ==
    (pc = "get_with_filters_clean" /\ raised = "none")
        => cleaned = SelectSeq([k \in 1..Len(results) |->
                                    _process_single_result(results[k], filters)],
                               Truthy)

----------------------------------------------------------------------------
(* count_with_filters and failures.                                        *)

\* the count query of the request cannot be built or executed
CountFails ==
    \/ ApplyConditions(QueryBuilder(model_class), filters).error
    \/ ExecQuery(build(ApplyConditions(QueryBuilder(model_class), filters)),
                 model_class).error

\* C28: count_with_filters never raises: whatever fails while the count
\* query is built or executed, a QueryBuilderError of a condition
\* included, the call returns 0.
C28_CountNeverRaises ==
    (pc = "count_with_filters")
        => /\ raised = "none"
           /\ count >= 0
           /\ CountFails => count = 0

\* a condition raised QueryBuilderError and the count is 0
C28_Witness ==
    /\ pc = "count_with_filters"
    /\ builder.error
    /\ count = 0
    /\ raised = "none"

----------------------------------------------------------------------------
(* Two calls on one service, interleaved step by step.  In this            *)
(* specification every variable but model_class holds one value per call:  *)
(* text[c] is the method call c runs, filters[c] its argument, pc[c] the   *)
(* statement it is at and builder[c] its local variable "builder".         *)

Calls == {1, 2}

\* two calls are made, each of either method with a request of its own
InitConcurrent ==
    /\ model_class \in ModelClasses
    /\ filters \in [Calls ->
           {f \in FilterSpace :
               /\ IsNone(f.limit) /\ f.offset = Sc(0)
               /\ \/ IsNone(f.conditions)
                  \/ f.conditions = Lst(<< Condition(<<"author", "email">>, "eq", Sc(5)) >>)
                  \/ f.conditions = Lst(<< Condition(<<"author">>, "eq", Sc(10)) >>)
               /\ f.fields \in {NoneV, Lst(<<"id", "title">>)}
               /\ f.relations \in {NoneV,
                                    Lst(<< RelationConfig("author", Lst(<<"email">>),
                                                          NoneV) >>)}
               /\ f.order_by \in {NoneV, Str(<<"author", "email">>)}}]
    /\ text \in [Calls -> {"get_with_filters", "count_with_filters"}]
    /\ pc = [c \in Calls |-> "called"]
    /\ builder = [c \in Calls |-> NoneV]
    /\ results = [c \in Calls |-> <<>>]
    /\ count = [c \in Calls |-> -1]
    /\ raised = [c \in Calls |-> "none"]
    /\ exception = [c \in Calls |-> NoException]
    /\ cleaned = <<>>
    /\ projected = NoneV

\* one builder object that every call of the service works on
StoreShared(builders, c, b) == [k \in DOMAIN builders |-> b]

\* "builder" is a local variable of the call: an assignment to it, or a
\* change of the object it names, is seen by that call only
Store(builders, c, b) == [builders EXCEPT ![c] = b]

\* call c runs its statement at "from" and goes on at "to"
Step(c, from, to, b) ==
    /\ pc[c] = from
    /\ builder' = Store(builder, c, b)
    /\ pc' = [pc EXCEPT ![c] = to]
    /\ UNCHANGED <<text, model_class, filters, results, cleaned, count, projected,
                   raised, exception>>

\* call c returns r or raises
CallAnswers(c, r) ==
    /\ results' = [results EXCEPT ![c] = r.results]
    /\ raised' = [raised EXCEPT ![c] = r.raised]
    /\ exception' = [exception EXCEPT ![c] = r.exception]
    /\ pc' = [pc EXCEPT ![c] = "returned"]
    /\ UNCHANGED <<text, model_class, filters, builder, cleaned, count, projected>>

\* call c returns the count of r
CallAnswersCount(c, r) ==
    /\ count' = [count EXCEPT ![c] = r.count]
    /\ raised' = [raised EXCEPT ![c] = r.raised]
    /\ pc' = [pc EXCEPT ![c] = "returned"]
    /\ UNCHANGED <<text, model_class, filters, builder, results, cleaned, projected,
                   exception>>

\* one call runs its next statement
NextConcurrent ==
    \E c \in Calls :
        \* builder = QueryBuilder(self.model_class)
        \/ Step(c, "called",
                IF text[c] = "get_with_filters" THEN "analyze_requirements"
                ELSE "apply_conditions",
                QueryBuilder(model_class))
        \/ Step(c, "analyze_requirements", "apply_field_selection",
                analyze_requirements(builder[c], filters[c]))
        \/ Step(c, "apply_field_selection", "apply_conditions",
                SelectFields(builder[c], filters[c]))
        \* a QueryBuilderError of a condition ends the try block
        \/ Step(c, "apply_conditions",
                IF text[c] = "count_with_filters" THEN "count"
                ELSE IF ApplyConditions(builder[c], filters[c]).error THEN "exec"
                ELSE "apply_relations",
                ApplyConditions(builder[c], filters[c]))
        \/ Step(c, "apply_relations", "apply_ordering",
                ApplyRelations(builder[c], filters[c]))
        \/ Step(c, "apply_ordering", "apply_pagination",
                ApplyOrdering(builder[c], filters[c]))
        \/ Step(c, "apply_pagination", "exec",
                apply_pagination(builder[c], filters[c].limit, filters[c].offset))
        \* query = builder.build(); session.exec(query).all(); post-processing
        \/ /\ pc[c] = "exec"
           /\ CallAnswers(c, Execute(builder[c], model_class, filters[c]))
        \* the count query is built and executed
        \/ /\ pc[c] = "count"
           /\ CallAnswersCount(c, ExecuteCount(builder[c], model_class))

SpecConcurrent == InitConcurrent /\ [][NextConcurrent]_vars

\* call c ended as the same call does when it runs alone
AsAlone(c) ==
    IF text[c] = "get_with_filters"
    THEN /\ builder[c] = get_with_filters(model_class, filters[c]).builder
         /\ results[c] = get_with_filters(model_class, filters[c]).results
         /\ raised[c] = get_with_filters(model_class, filters[c]).raised
         /\ exception[c] = get_with_filters(model_class, filters[c]).exception
    ELSE /\ builder[c] = count_with_filters(model_class, filters[c]).builder
         /\ count[c] = count_with_filters(model_class, filters[c]).count
         /\ raised[c] = count_with_filters(model_class, filters[c]).raised

\* C29: concurrent get_with_filters and count_with_filters calls on the
\* same service share no builder state: under every interleaving of their
\* steps each call's plan and result are those of the call run alone.
C29_CallsAreIsolated ==
    \A c \in Calls : (pc[c] = "returned") => AsAlone(c)

\* both calls returned, with different requests, and the first one joined
C29_Witness ==
    /\ \A c \in Calls : pc[c] = "returned"
    /\ filters[1] # filters[2]
    /\ text[1] = "get_with_filters"
    /\ builder[1].joins_applied # {}
    /\ builder[2].joins_applied = {}
    /\ Len(results[1]) > 0

----------------------------------------------------------------------------
(* _get_related_model against a lookup that has no cache.                  *)

\* the names a lookup is made with: relationships, columns, unknown names
LookupNames == {"author", "posts", "profile", "id", "nope", "author.email"}

\* the lookup of (model, relation_name) with an empty cache
Uncached(model, relation_name) ==
    _get_related_model(QueryBuilder(model_class), model, relation_name).model

\* C30: _get_related_model is transparent to its cache: whatever the
\* instance has cached, a lookup of (model, relation) returns the type the
\* uncached lookup returns, again on a repeated lookup, never the entry of
\* another pair, and None, with the cache untouched, for a name that is no
\* relation of the model.
C30_CacheIsTransparent ==
    (pc \in {"QueryBuilder", "called"})
        => \A model \in Entities, relation_name \in LookupNames :
               /\ _get_related_model(builder, model, relation_name).model
                      = Uncached(model, relation_name)
               /\ _get_related_model(_get_related_model(builder, model, relation_name).b,
                                     model, relation_name).model
                      = Uncached(model, relation_name)
               /\ relation_name \notin RelationNames(model)
                      => /\ _get_related_model(builder, model, relation_name).model = "None"
                         /\ _get_related_model(builder, model, relation_name).b = builder

\* the instance has cached two relations of one model
C30_Witness ==
    /\ pc = "called"
    /\ {"Author.posts", "Author.profile"} \subseteq DOMAIN builder._model_registry
    /\ builder._model_registry["Author.posts"] = "Post"
    /\ builder._model_registry["Author.profile"] = "Profile"

====
